---------------------------- MODULE Spec2Model ----------------------------
(***************************************************************************)
(* A model of the rule evaluation core of elastalert/ruletypes.py:         *)
(* EventWindow, TermsWindow and the detectors built on them.               *)
(*                                                                         *)
(* Every rule object is one variable holding a record of the object's      *)
(* fields, named as in the source.  Each object has its own specification  *)
(* (SpecEW, SpecFreq, ...); an object that a specification does not        *)
(* instantiate holds NoObject.  Timestamps and timedeltas are integers.    *)
(* Python sequences are 0-based, the sequences here are 1-based: an        *)
(* EventWindow entry (event, count) is <<event, count>>, so entry[1] is    *)
(* the event and entry[2] the count.                                       *)
(***************************************************************************)
EXTENDS Integers, Sequences, FiniteSets, TLC

VARIABLES
    ew,     \* SpecEW: one EventWindow and the calls its onRemoved received
    fr,     \* SpecFreq: one FrequencyRule
    sp,     \* SpecSpike, SpecSpikeScn: one SpikeRule
    tw,     \* SpecTerms: one TermsWindow
    nt,     \* SpecNewTermsScn: one NewTermsRule
    fl,     \* SpecFlat: one FlatlineRule
    ch,     \* SpecChange: the ChangeRule class attributes and two instances
    ca,     \* SpecCard: one CardinalityRule
    cr,     \* SpecCompare: one BlacklistRule, WhitelistRule or AnyRule
    rt,     \* SpecChannels: the class of the one detector and the last unsupported call
    fm,     \* SpecFind: the arguments and the result of the last find_matches call
    ag,     \* SpecAgg: the check_matches invocations of one BaseAggregationRule
    bf      \* SpecBackfill: the position of get_all_terms, its queries and the term windows

vars == <<ew, fr, sp, tw, nt, fl, ch, ca, cr, rt, fm, ag, bf>>

NoObject == "none"

(***************************************************************************)
(* Generic helpers                                                         *)
(***************************************************************************)
Min2(a, b) == IF a <= b THEN a ELSE b

Range(s) == {s[i] : i \in 1..Len(s)}

RECURSIVE SeqsUpTo(_, _)
\* all sequences over S of length at most n
SeqsUpTo(S, n) ==
    IF n = 0 THEN {<<>>}
    ELSE LET shorter == SeqsUpTo(S, n - 1)
         IN  shorter \cup {Append(s, x) : s \in {t \in shorter : Len(t) = n - 1}, x \in S}

(***************************************************************************)
(* EventWindow (ruletypes.py 335-401)                                      *)
(* A window is [timeframe, data, running_count]; data is the sortedlist.   *)
(***************************************************************************)
\* new_get_event_ts(ts_field): the timestamp of an entry (event, count)
get_ts(entry) == entry[1].ts

\* EventWindow.__init__
EventWindow(timeframe) == [timeframe |-> timeframe, data |-> <<>>, running_count |-> 0]

\* EventWindow.clear: a fresh sortedlist and a zero count, no callback
EventWindow_clear(w) == [w EXCEPT !.data = <<>>, !.running_count = 0]

\* EventWindow.duration
EventWindow_duration(w) ==
    IF Len(w.data) = 0 THEN 0
    ELSE get_ts(w.data[Len(w.data)]) - get_ts(w.data[1])

\* EventWindow.count
EventWindow_count(w) == w.running_count

\* mutant of sortedlist_add: the entry goes to the end whatever its key
sortedlist_add_End(data, entry) == Append(data, entry)

\* mutant of sortedlist_add: the entry goes before the entries with its own
\* key (bisect_left)
sortedlist_add_Left(data, entry) ==
    LET n == Cardinality({i \in 1..Len(data) : get_ts(data[i]) < get_ts(entry)})
    IN  SubSeq(data, 1, n) \o <<entry>> \o SubSeq(data, n + 1, Len(data))

\* sortedlist.add (SortedKeyList): the entry goes after every entry whose key
\* is less than or equal to its own (bisect_right)
sortedlist_add(data, entry) ==
    LET n == Cardinality({i \in 1..Len(data) : get_ts(data[i]) <= get_ts(entry)})
    IN  SubSeq(data, 1, n) \o <<entry>> \o SubSeq(data, n + 1, Len(data))

\* mutant of EventWindow_over: the loop runs as with a timeframe of zero
EventWindow_over_Zero(w) == Len(w.data) > 0 /\ EventWindow_duration(w) >= 0

\* mutant of EventWindow_over: the loop stops one step early (> for >=)
EventWindow_over_Strict(w) == EventWindow_duration(w) > w.timeframe

\* the condition of the while loop of EventWindow.append
EventWindow_over(w) == EventWindow_duration(w) >= w.timeframe

RECURSIVE EventWindow_evict(_, _)
\* mutant of EventWindow_evict: onRemoved is called twice for each entry
EventWindow_evict_Twice(w, removed) ==
    IF EventWindow_over(w)
    THEN LET oldest == w.data[1]
         IN  EventWindow_evict(
                 [w EXCEPT !.data = Tail(@),
                           !.running_count = IF oldest[2] # 0 THEN @ - oldest[2] ELSE @],
                 Append(Append(removed, oldest), oldest))
    ELSE [w |-> w, removed |-> removed]

\* the while loop of EventWindow.append: pops data[0] while the window is too
\* long; removed collects the entries handed to onRemoved, in call order
EventWindow_evict(w, removed) ==
    IF EventWindow_over(w)
    THEN LET oldest == w.data[1]
         IN  EventWindow_evict(
                 [w EXCEPT !.data = Tail(@),
                           !.running_count = IF oldest[2] # 0 THEN @ - oldest[2] ELSE @],
                 Append(removed, oldest))
    ELSE [w |-> w, removed |-> removed]

\* mutant of EventWindow_append: the count of the new entry is not added
EventWindow_append_Uncounted(w, entry) ==
    EventWindow_evict([w EXCEPT !.data = sortedlist_add(@, entry)], <<>>)

\* EventWindow.append; the result is the window and the onRemoved calls made
EventWindow_append(w, entry) ==
    EventWindow_evict(
        [w EXCEPT !.data = sortedlist_add(@, entry),
                  !.running_count = IF entry[2] # 0 THEN @ + entry[2] ELSE @],
        <<>>)

RECURSIVE SumCounts(_)
\* the sum of the counts of a sequence of entries (reference value for claims)
SumCounts(data) == IF Len(data) = 0 THEN 0 ELSE data[1][2] + SumCounts(Tail(data))

(***************************************************************************)
(* RuleType (ruletypes.py 16-88)                                           *)
(***************************************************************************)
\* the value of a field an event does not carry
NoKey == "none"

\* util.dt_to_ts: a timestamp serialised to its RFC3339 string
dt_to_ts(t) == [rfc3339 |-> t]

\* RuleType.add_match: the timestamp field is serialised and a deep copy of the
\* event is appended to self.matches
RuleType_add_match(matches, event) ==
    Append(matches, [event EXCEPT !.ts = dt_to_ts(@)])

\* dict.setdefault(key, EventWindow(timeframe))
setdefault_window(d, key, timeframe) ==
    IF key \in DOMAIN d THEN d ELSE d @@ (key :> EventWindow(timeframe))

\* dict.pop(key)
dict_pop(d, key) == [k \in DOMAIN d \ {key} |-> d[k]]

(***************************************************************************)
(* FrequencyRule (ruletypes.py 206-324)                                    *)
(* fr = [rules, occurrences, matches, err, log, calls, op, gc];            *)
(* rules.query_key is whether the option is set; log holds one record per  *)
(* ingest step of the last call; gc holds the timestamp of the last        *)
(* garbage_collect and the occurrences it found.                           *)
(***************************************************************************)
\* mutant of FrequencyRule_matched: > for >=
FrequencyRule_matched_Strict(window, rules) ==
    EventWindow_count(window) > rules.num_events

\* the condition of FrequencyRule.check_for_match
FrequencyRule_matched(window, rules) ==
    EventWindow_count(window) >= rules.num_events

\* FrequencyRule.check_for_match (attach_related unset)
FrequencyRule_check_for_match(s, rules, key) ==
    IF FrequencyRule_matched(s.occurrences[key], rules)
    THEN LET data == s.occurrences[key].data
             event == data[Len(data)][1]
         IN  [s EXCEPT !.matches = RuleType_add_match(@, event),
                       !.occurrences = dict_pop(@, key)]
    ELSE s

\* one ingest step: occurrences.setdefault(key, EventWindow(..)).append(entry)
\* followed by check_for_match(key); the step is recorded in log
FrequencyRule_step(s, rules, key, entry) ==
    LET occ == setdefault_window(s.occurrences, key, rules.timeframe)
        r   == EventWindow_append(occ[key], entry)
        s1  == [s EXCEPT !.occurrences = [occ EXCEPT ![key] = r.w]]
        s2  == FrequencyRule_check_for_match(s1, rules, key)
    IN  [s2 EXCEPT !.log = Append(@,
            [key |-> key, entry |-> entry,
             pre |-> IF key \in DOMAIN s.occurrences THEN s.occurrences[key].data ELSE <<>>,
             before |-> Len(s.matches), after |-> Len(s2.matches),
             kept |-> key \in DOMAIN s2.occurrences])]

\* the key add_data files an event under
FrequencyRule_key(rules, event) == IF rules.query_key THEN event.qk ELSE "all"

RECURSIVE FrequencyRule_add_data_loop(_, _, _)
\* the for loop of FrequencyRule.add_data
FrequencyRule_add_data_loop(s, rules, data) ==
    IF Len(data) = 0 THEN s
    ELSE FrequencyRule_add_data_loop(
             FrequencyRule_step(s, rules, FrequencyRule_key(rules, data[1]), <<data[1], 1>>),
             rules, Tail(data))

\* FrequencyRule.add_data: the loop, then check_for_match(key, end=True) for the
\* key of the last event when it still has a window; with no event the name
\* key is unbound at line 293
FrequencyRule_add_data(s, rules, data) ==
    IF Len(data) = 0 THEN [s EXCEPT !.err = "UnboundLocalError"]
    ELSE LET s1  == FrequencyRule_add_data_loop(s, rules, data)
             key == FrequencyRule_key(rules, data[Len(data)])
         IN  IF key \in DOMAIN s1.occurrences
             THEN FrequencyRule_check_for_match(s1, rules, key)
             ELSE s1

\* FrequencyRule.add_count_data; d = [keys, endtime, count, event] where keys
\* is the set of keys the payload carries
FrequencyRule_add_count_data(s, rules, d) ==
    IF "endtime" \notin d.keys \/ "count" \notin d.keys
    THEN [s EXCEPT !.err = "EAException"]
    ELSE LET doc == IF "event" \in d.keys THEN d.event
                    ELSE [ts |-> d.endtime, qk |-> NoKey]
         IN  FrequencyRule_step(s, rules, "all", <<doc, d.count>>)

RECURSIVE FrequencyRule_add_terms_loop(_, _, _, _)
\* the loop over the buckets of one timestamp in FrequencyRule.add_terms_data;
\* rules['query_key'] of an unset option raises KeyError
FrequencyRule_add_terms_loop(s, rules, timestamp, buckets) ==
    IF Len(buckets) = 0 THEN s
    ELSE IF ~rules.query_key THEN [s EXCEPT !.err = "KeyError"]
    ELSE LET bucket == buckets[1]
             entry  == <<[ts |-> timestamp, qk |-> bucket.key], bucket.doc_count>>
         IN  FrequencyRule_add_terms_loop(
                 FrequencyRule_step(s, rules, bucket.key, entry),
                 rules, timestamp, Tail(buckets))

\* FrequencyRule.add_terms_data for a payload of one timestamp (nested_query_key unset)
FrequencyRule_add_terms_data(s, rules, timestamp, buckets) ==
    FrequencyRule_add_terms_loop(s, rules, timestamp, buckets)

\* mutant of FrequencyRule.garbage_collect: a window whose newest entry is
\* exactly timeframe old is stale too
FrequencyRule_garbage_collect_AtTimeframe(s, rules, timestamp) ==
    IF \E k \in DOMAIN s.occurrences : Len(s.occurrences[k].data) = 0
    THEN [s EXCEPT !.err = "IndexError"]
    ELSE LET stale_keys == {k \in DOMAIN s.occurrences :
                 timestamp - get_ts(s.occurrences[k].data[Len(s.occurrences[k].data)])
                     >= rules.timeframe}
         IN  [s EXCEPT !.occurrences = [k \in DOMAIN @ \ stale_keys |-> @[k]]]

\* FrequencyRule.garbage_collect: window.data[-1] of an empty window raises
\* IndexError before any key is popped
FrequencyRule_garbage_collect(s, rules, timestamp) ==
    IF \E k \in DOMAIN s.occurrences : Len(s.occurrences[k].data) = 0
    THEN [s EXCEPT !.err = "IndexError"]
    ELSE LET stale_keys == {k \in DOMAIN s.occurrences :
                 timestamp - get_ts(s.occurrences[k].data[Len(s.occurrences[k].data)])
                     > rules.timeframe}
         IN  [s EXCEPT !.occurrences = [k \in DOMAIN @ \ stale_keys |-> @[k]]]

(***************************************************************************)
(* SpecFreq: one FrequencyRule driven by the scheduler                     *)
(***************************************************************************)
FrMaxCalls == 2
FrTimes == 0..2
\* the times garbage_collect is called with reach past the newest event by
\* more than the timeframe
FrGcTimes == 0..5
FrKeys == {"a", "b"}
FrCounts == {0, 1, 2}
FrRules ==
    {[timeframe |-> 2, num_events |-> n, query_key |-> q] :
        n \in {2, 3}, q \in BOOLEAN}

FrEvents(rules) ==
    IF rules.query_key THEN {[ts |-> t, qk |-> k] : t \in FrTimes, k \in FrKeys}
    ELSE {[ts |-> t, qk |-> NoKey] : t \in FrTimes}

\* batches of add_data: none, one or two events
FrBatches(rules) == SeqsUpTo(FrEvents(rules), 2)

\* payloads of add_count_data: complete ones, with and without a sample event,
\* and the two that lack a key
FrCountData ==
    {[keys |-> {"endtime", "count"}, endtime |-> t, count |-> c,
      event |-> [ts |-> t, qk |-> NoKey]] : t \in FrTimes, c \in FrCounts}
    \cup {[keys |-> {"endtime", "count", "event"}, endtime |-> t, count |-> 1,
           event |-> [ts |-> t, qk |-> "a"]] : t \in FrTimes}
    \cup {[keys |-> {k}, endtime |-> 0, count |-> 1, event |-> [ts |-> 0, qk |-> NoKey]] :
           k \in {"endtime", "count"}}

\* bucket lists of a terms aggregation: the keys of one list are distinct
FrBuckets ==
    {bs \in SeqsUpTo({[key |-> k, doc_count |-> c] : k \in FrKeys, c \in {1, 2}}, 2) :
        \A i, j \in 1..Len(bs) : i # j => bs[i].key # bs[j].key}

\* the object at the start of a call: the last call's error and log are gone
FrCall == [fr EXCEPT !.err = "none", !.log = <<>>, !.calls = @ + 1]

FrInit ==
    \E rules \in FrRules :
        fr = [rules |-> rules, occurrences |-> <<>>, matches |-> <<>>,
              err |-> "none", log |-> <<>>, calls |-> 0, op |-> "init",
              gc |-> <<>>]

FrAddData ==
    /\ fr.calls < FrMaxCalls
    /\ \E data \in FrBatches(fr.rules) :
        fr' = [FrequencyRule_add_data(FrCall, fr.rules, data) EXCEPT !.op = "add_data"]

FrAddCountData ==
    /\ fr.calls < FrMaxCalls
    /\ \E d \in FrCountData :
        fr' = [FrequencyRule_add_count_data(FrCall, fr.rules, d)
                  EXCEPT !.op = "add_count_data"]

FrAddTermsData ==
    /\ fr.calls < FrMaxCalls
    /\ \E t \in FrTimes, buckets \in FrBuckets :
        fr' = [FrequencyRule_add_terms_data(FrCall, fr.rules, t, buckets)
                  EXCEPT !.op = "add_terms_data"]

FrGarbageCollect ==
    /\ fr.calls < FrMaxCalls
    /\ \E t \in FrGcTimes :
        fr' = [FrequencyRule_garbage_collect(FrCall, fr.rules, t)
                  EXCEPT !.op = "garbage_collect",
                         !.gc = <<[timestamp |-> t, before |-> fr.occurrences]>>]

FrNext ==
    \/ FrAddData /\ UNCHANGED <<ew, sp, tw, nt, fl, ch, ca, cr, rt, fm, ag, bf>>
    \/ FrAddCountData /\ UNCHANGED <<ew, sp, tw, nt, fl, ch, ca, cr, rt, fm, ag, bf>>
    \/ FrAddTermsData /\ UNCHANGED <<ew, sp, tw, nt, fl, ch, ca, cr, rt, fm, ag, bf>>
    \/ FrGarbageCollect /\ UNCHANGED <<ew, sp, tw, nt, fl, ch, ca, cr, rt, fm, ag, bf>>

SpecFreqInit ==
    /\ FrInit /\ ew = NoObject /\ sp = NoObject /\ tw = NoObject
    /\ nt = NoObject /\ fl = NoObject /\ ch = NoObject
    /\ ca = NoObject /\ cr = NoObject /\ rt = NoObject /\ fm = NoObject /\ ag = NoObject /\ bf = NoObject

SpecFreq == SpecFreqInit /\ [][FrNext]_vars

\* the entries a window of the given timeframe retains of pre plus entry: those
\* whose timestamp is less than timeframe before the newest (reference value)
RetainedOf(pre, entry, timeframe) ==
    LET all    == sortedlist_add(pre, entry)
        newest == get_ts(all[Len(all)])
    IN  SelectSeq(all, LAMBDA e : newest - get_ts(e) < timeframe)

\* C2: every ingest step of a FrequencyRule for a key k emits a match iff the
\* running count of k's window, after the entry is appended and stale entries
\* are evicted, is >= num_events; the match is the newest entry of that window,
\* k's window is dropped in that step and kept otherwise, and the call emits
\* nothing beyond its steps.
C2_MatchIffCount ==
    /\ \A i \in 1..Len(fr.log) :
        LET st       == fr.log[i]
            retained == RetainedOf(st.pre, st.entry, fr.rules.timeframe)
            crossed  == SumCounts(retained) >= fr.rules.num_events
        IN  /\ st.after = st.before + (IF crossed THEN 1 ELSE 0)
            /\ crossed =>
                /\ fr.matches[st.after] =
                       [retained[Len(retained)][1] EXCEPT !.ts = dt_to_ts(@)]
                /\ ~st.kept
            /\ ~crossed => st.kept
    /\ Len(fr.log) > 0 => Len(fr.matches) = fr.log[Len(fr.log)].after

\* C2 witness: a call whose step evicted a stale entry and then matched on an
\* event that is not the one just appended, and the key has no window left.
C2_Witness ==
    /\ fr.op = "add_data"
    /\ \E i \in 1..Len(fr.log) :
        LET st == fr.log[i]
        IN  /\ st.after = st.before + 1
            /\ Len(st.pre) >= 2
            /\ fr.matches[st.after].ts # dt_to_ts(st.entry[1].ts)
            /\ st.key \notin DOMAIN fr.occurrences

\* C2 witness of the worked example (scaled to timeframe 2): with num_events 3
\* the third event in the timeframe gives the only match.
C2_WitnessThird ==
    /\ fr.rules.num_events = 3
    /\ Len(fr.matches) = 1
    /\ Len(fr.log) > 0
    /\ fr.log[Len(fr.log)].after = 1
    /\ fr.log[Len(fr.log)].before = 0
    /\ Len(fr.log[Len(fr.log)].pre) = 2
    /\ DOMAIN fr.occurrences = {}

\* the timestamp of the newest entry of a window
FrNewest(window) == get_ts(window.data[Len(window.data)])

\* C28: FrequencyRule.garbage_collect(now) removes exactly the keys whose
\* window's newest entry satisfies now - ts > timeframe, leaves the window of
\* every other key and the match buffer as they were, and emits no match.
C28_GcRemovesStale ==
    [][(fr'.op = "garbage_collect" /\ fr'.calls = fr.calls + 1) =>
          LET now == fr'.gc[1].timestamp
          IN  /\ fr'.err = "none"
              /\ \A k \in DOMAIN fr.occurrences :
                    IF now - FrNewest(fr.occurrences[k]) > fr.rules.timeframe
                    THEN k \notin DOMAIN fr'.occurrences
                    ELSE /\ k \in DOMAIN fr'.occurrences
                         /\ fr'.occurrences[k] = fr.occurrences[k]
              /\ DOMAIN fr'.occurrences \subseteq DOMAIN fr.occurrences
              /\ fr'.matches = fr.matches]_vars

\* C28 witness: garbage_collect(3) with timeframe 2 found key a with newest
\* entry at 0 and key b with newest entry at 1; a is gone, b, exactly
\* timeframe old, is kept
C28_Witness ==
    /\ fr.op = "garbage_collect" /\ fr.err = "none"
    /\ fr.gc[1].timestamp = 3
    /\ DOMAIN fr.gc[1].before = {"a", "b"}
    /\ FrNewest(fr.gc[1].before["a"]) = 0
    /\ FrNewest(fr.gc[1].before["b"]) = 1
    /\ DOMAIN fr.occurrences = {"b"}
    /\ fr.occurrences["b"] = fr.gc[1].before["b"]

\* a garbage_collect after a match left the match buffer alone
C28_WitnessMatches ==
    /\ fr.op = "garbage_collect" /\ Len(fr.matches) = 1
    /\ DOMAIN fr.gc[1].before # {} /\ DOMAIN fr.occurrences = {}

\* an add_data step with an empty batch: the call made no ingest step
FrEmptyBatch(s, t) == t.op = "add_data" /\ t.calls = s.calls + 1 /\ Len(t.log) = 0

\* C40: FrequencyRule.add_data called with an empty batch of events raises no
\* error, emits no match and leaves occurrences unchanged.
C40_EmptyBatch ==
    [][FrEmptyBatch(fr, fr') =>
          /\ fr'.err = "none"
          /\ fr'.matches = fr.matches
          /\ fr'.occurrences = fr.occurrences]_vars

\* an empty batch emits no match and leaves occurrences unchanged
C40_NothingChanged ==
    [][FrEmptyBatch(fr, fr') =>
          fr'.matches = fr.matches /\ fr'.occurrences = fr.occurrences]_vars

\* add_data([]) after a call that left a window raised UnboundLocalError
C40_Raised ==
    /\ fr.op = "add_data" /\ fr.calls = 2 /\ Len(fr.log) = 0
    /\ fr.err = "UnboundLocalError"
    /\ DOMAIN fr.occurrences # {}

\* C38: in a FrequencyRule with timeframe > 0, after any sequence of ingest
\* and garbage_collect calls every window stored in occurrences holds at
\* least one entry, so garbage_collect and check_for_match can read the
\* window's newest entry.
C38_NonEmptyWindows ==
    \A k \in DOMAIN fr.occurrences : Len(fr.occurrences[k].data) >= 1

\* C38 witness: a call appended an entry at least timeframe older than the
\* only entry of its window; the append evicted the late entry and the window
\* holds what it held before
C38_Witness ==
    /\ fr.op = "add_data" /\ Len(fr.log) = 1
    /\ Len(fr.log[1].pre) = 1
    /\ get_ts(fr.log[1].pre[1]) - get_ts(fr.log[1].entry) >= fr.rules.timeframe
    /\ fr.log[1].key \in DOMAIN fr.occurrences
    /\ fr.occurrences[fr.log[1].key].data = fr.log[1].pre

(***************************************************************************)
(* EventWindow statistics (ruletypes.py 374-401).  A value is a rational   *)
(* [num, den]; None is the value with den = 0.                             *)
(***************************************************************************)
None == [num |-> 0, den |-> 0]

IsNone(x) == x.den = 0

Int2Val(n) == [num |-> n, den |-> 1]

\* x < y for two values that are not None
ValLt(x, y) == x.num * y.den < y.num * x.den

RECURSIVE SeqSum(_)
SeqSum(q) == IF Len(q) = 0 THEN 0 ELSE q[1] + SeqSum(Tail(q))

\* EventWindow.mean: the mean count of the entries without a placeholder mark
EventWindow_mean(w) ==
    LET real == SelectSeq(w.data, LAMBDA e : ~e[1].placeholder)
    IN  IF Len(real) > 0
        THEN [num |-> SeqSum([i \in 1..Len(real) |-> real[i][2]]), den |-> Len(real)]
        ELSE None

\* EventWindow.min: the least count of all entries
EventWindow_min(w) ==
    IF Len(w.data) > 0
    THEN Int2Val(CHOOSE c \in {e[2] : e \in Range(w.data)} :
                     \A d \in {e[2] : e \in Range(w.data)} : c <= d)
    ELSE None

\* EventWindow.max: the greatest count of all entries
EventWindow_max(w) ==
    IF Len(w.data) > 0
    THEN Int2Val(CHOOSE c \in {e[2] : e \in Range(w.data)} :
                     \A d \in {e[2] : e \in Range(w.data)} : c >= d)
    ELSE None

(***************************************************************************)
(* SpikeRule (ruletypes.py 530-721)                                        *)
(* sp = [rules, ref_windows, cur_windows, order, first_event, skip_checks,  *)
(* ref_window_filled_once, matches, err, log, calls, op].  order is the key *)
(* order of the dict cur_windows; rules.query_key, rules.alert_on_new_data  *)
(* and rules.field_value say whether the option is set; an unset            *)
(* threshold_cur or threshold_ref is 0, the default rules.get gives it.     *)
(***************************************************************************)
\* mutant of EventWindow_append_all: the current window has no onRemoved
EventWindow_append_all_Dropped(w, entries) == w

RECURSIVE EventWindow_append_all(_, _)
\* the onRemoved calls of a current window: each evicted entry is appended to
\* the reference window, which has no callback of its own
EventWindow_append_all(w, entries) ==
    IF Len(entries) = 0 THEN w
    ELSE EventWindow_append_all(EventWindow_append(w, entries[1]).w, Tail(entries))

\* SpikeRule.get_spike_values: <<reference value, current value>>
SpikeRule_get_spike_values(s, rules, qk) ==
    CASE rules.metric_agg_type = "avg" ->
             <<EventWindow_mean(s.ref_windows[qk]), EventWindow_mean(s.cur_windows[qk])>>
      [] rules.metric_agg_type = "min" ->
             <<EventWindow_min(s.ref_windows[qk]), EventWindow_min(s.cur_windows[qk])>>
      [] rules.metric_agg_type = "max" ->
             <<EventWindow_max(s.ref_windows[qk]), EventWindow_max(s.cur_windows[qk])>>
      [] OTHER ->
             <<Int2Val(EventWindow_count(s.ref_windows[qk])),
               Int2Val(EventWindow_count(s.cur_windows[qk]))>>

\* SpikeRule.find_matches raises TypeError when it orders None and a number
SpikeRule_find_matches_raises(rules, ref, cur) ==
    ~rules.field_value /\ (IsNone(cur) \/ IsNone(ref))

\* mutant of SpikeRule_find_matches: a spike up needs cur > ref*spike_height
SpikeRule_find_matches_StrictUp(rules, ref, cur) ==
    IF ~rules.field_value
           /\ (ValLt(cur, Int2Val(rules.threshold_cur))
               \/ ValLt(ref, Int2Val(rules.threshold_ref)))
    THEN FALSE
    ELSE IF rules.field_value
           /\ (IsNone(ref) \/ ref.num = 0 \/ IsNone(cur) \/ cur.num = 0)
    THEN FALSE
    ELSE LET spike_down == cur.num * ref.den * rules.spike_height <= ref.num * cur.den
             spike_up   == cur.num * ref.den > ref.num * rules.spike_height * cur.den
         IN  \/ rules.spike_type \in {"both", "up"} /\ spike_up
             \/ rules.spike_type \in {"both", "down"} /\ spike_down

\* SpikeRule.find_matches
SpikeRule_find_matches(rules, ref, cur) ==
    IF ~rules.field_value
           /\ (ValLt(cur, Int2Val(rules.threshold_cur))
               \/ ValLt(ref, Int2Val(rules.threshold_ref)))
    THEN FALSE
    ELSE IF rules.field_value
           /\ (IsNone(ref) \/ ref.num = 0 \/ IsNone(cur) \/ cur.num = 0)
    THEN FALSE
    ELSE LET spike_down == cur.num * ref.den * rules.spike_height <= ref.num * cur.den
             spike_up   == cur.num * ref.den >= ref.num * rules.spike_height * cur.den
         IN  \/ rules.spike_type \in {"both", "up"} /\ spike_up
             \/ rules.spike_type \in {"both", "down"} /\ spike_down

\* SpikeRule.add_match: the event with spike_count and reference_count merged in
SpikeRule_add_match(s, rules, match, qk) ==
    LET vals == IF ~rules.field_value THEN SpikeRule_get_spike_values(s, rules, qk)
                ELSE <<EventWindow_mean(s.ref_windows[qk]),
                       EventWindow_mean(s.cur_windows[qk])>>
        extra == [ts |-> match.ts, qk |-> match.qk, placeholder |-> match.placeholder,
                  spike_count |-> vals[2], reference_count |-> vals[1]]
    IN  [s EXCEPT !.matches = RuleType_add_match(@, extra)]

\* SpikeRule.clear_windows
SpikeRule_clear_windows(s, rules, qk, event) ==
    [s EXCEPT !.ref_windows[qk] = EventWindow_clear(@),
              !.first_event = dict_pop(@, qk),
              !.skip_checks = [k \in DOMAIN @ \cup {qk} |->
                                  IF k = qk THEN event.ts + rules.timeframe * 2 ELSE @[k]]]

\* the event handle_event reports: the first entry of the current window that
\* the for loop breaks on, or the last entry when it never breaks
SpikeRule_pick(data, wanted(_)) ==
    LET hits == {i \in 1..Len(data) : wanted(data[i])}
    IN  IF hits = {} THEN data[Len(data)][1]
        ELSE data[CHOOSE i \in hits : \A j \in hits : i <= j][1]

\* mutant of SpikeRule_suppressed: the cooldown of skip_checks is not consulted
SpikeRule_suppressed_NoCooldown(s, rules, event, qk, first) ==
    /\ event.ts - first.ts < rules.timeframe * 2
    /\ \/ ~s.ref_window_filled_once
       \/ ~(rules.query_key /\ rules.alert_on_new_data)

\* the returns of the warm-up gate of SpikeRule.handle_event (lines 622-631)
SpikeRule_suppressed(s, rules, event, qk, first) ==
    /\ event.ts - first.ts < rules.timeframe * 2
    /\ \/ ~s.ref_window_filled_once
       \/ ~(rules.query_key /\ rules.alert_on_new_data)
       \/ qk \in DOMAIN s.skip_checks /\ event.ts < s.skip_checks[qk]

\* lines 635-652 of SpikeRule.handle_event: the comparison and the match
SpikeRule_evaluate(s, rules, qk) ==
    LET vals == IF rules.field_value
                THEN <<EventWindow_mean(s.ref_windows[qk]),
                       EventWindow_mean(s.cur_windows[qk])>>
                ELSE SpikeRule_get_spike_values(s, rules, qk)
        data == s.cur_windows[qk].data
        match == IF rules.field_value
                 THEN SpikeRule_pick(data, LAMBDA e : ~e[1].placeholder)
                 ELSE SpikeRule_pick(data, LAMBDA e : e[2] # 0)
    IN  IF SpikeRule_find_matches_raises(rules, vals[1], vals[2])
        THEN [s EXCEPT !.err = "TypeError"]
        ELSE IF SpikeRule_find_matches(rules, vals[1], vals[2])
        THEN SpikeRule_clear_windows(SpikeRule_add_match(s, rules, match, qk),
                                     rules, qk, match)
        ELSE s

\* SpikeRule.handle_event; the step is recorded in log
SpikeRule_handle_event(s, rules, event, count, qk) ==
    LET fe   == IF qk \in DOMAIN s.first_event THEN s.first_event
                ELSE s.first_event @@ (qk :> event)
        refw == setdefault_window(s.ref_windows, qk, rules.timeframe)
        curw == setdefault_window(s.cur_windows, qk, rules.timeframe)
        r    == EventWindow_append(curw[qk], <<event, count>>)
        s1   == [s EXCEPT !.first_event = fe,
                          !.ref_windows = [refw EXCEPT ![qk] =
                                              EventWindow_append_all(@, r.removed)],
                          !.cur_windows = [curw EXCEPT ![qk] = r.w],
                          !.order = IF qk \in DOMAIN s.cur_windows THEN @
                                    ELSE Append(@, qk)]
        warm == event.ts - fe[qk].ts < rules.timeframe * 2
        s2   == IF SpikeRule_suppressed(s1, rules, event, qk, fe[qk]) THEN s1
                ELSE SpikeRule_evaluate(
                         IF warm THEN s1 ELSE [s1 EXCEPT !.ref_window_filled_once = TRUE],
                         rules, qk)
    IN  [s2 EXCEPT !.log = Append(@,
            [qk |-> qk, event |-> event, count |-> count,
             first_event |-> s.first_event, skip_checks |-> s.skip_checks,
             filled |-> s.ref_window_filled_once,
             evicted |-> r.removed,
             before |-> Len(s.matches), after |-> Len(s2.matches)])]

RECURSIVE SpikeRule_add_data(_, _, _)
\* SpikeRule.add_data: a query_key value of None files the event under 'other';
\* with field_value set an event is handled only when it carries a number
SpikeRule_add_data(s, rules, data) ==
    IF Len(data) = 0 \/ s.err # "none" THEN s
    ELSE LET event == data[1]
             qk == IF ~rules.query_key THEN "all"
                   ELSE IF event.qk = NoKey THEN "other" ELSE event.qk
             s1 == IF rules.field_value
                   THEN IF event.val.den = 0 THEN s
                        ELSE SpikeRule_handle_event(s, rules, event, event.val.num, qk)
                   ELSE SpikeRule_handle_event(s, rules, event, 1, qk)
         IN  SpikeRule_add_data(s1, rules, Tail(data))

\* SpikeRule.add_count_data: data['endtime'] and data['count'] are read unguarded
SpikeRule_add_count_data(s, rules, d) ==
    IF "endtime" \notin d.keys \/ "count" \notin d.keys
    THEN [s EXCEPT !.err = "KeyError"]
    ELSE SpikeRule_handle_event(s, rules,
             [ts |-> d.endtime, qk |-> NoKey, placeholder |-> FALSE, val |-> None],
             d.count, "all")

RECURSIVE SpikeRule_add_terms_data(_, _, _, _)
\* SpikeRule.add_terms_data for a payload of one timestamp
SpikeRule_add_terms_data(s, rules, timestamp, buckets) ==
    IF Len(buckets) = 0 \/ s.err # "none" THEN s
    ELSE IF ~rules.query_key THEN [s EXCEPT !.err = "KeyError"]
    ELSE LET bucket == buckets[1]
             event  == [ts |-> timestamp, qk |-> bucket.key, placeholder |-> FALSE,
                        val |-> None]
         IN  SpikeRule_add_terms_data(
                 SpikeRule_handle_event(s, rules, event, bucket.doc_count, bucket.key),
                 rules, timestamp, Tail(buckets))

RECURSIVE SpikeRule_gc_loop(_, _, _, _)
\* the for loop of SpikeRule.garbage_collect over list(self.cur_windows.keys())
SpikeRule_gc_loop(s, rules, ts, keys) ==
    IF Len(keys) = 0 \/ s.err # "none" THEN s
    ELSE LET qk == keys[1]
             s1 == IF /\ qk # "all"
                      /\ EventWindow_count(s.ref_windows[qk]) = 0
                      /\ EventWindow_count(s.cur_windows[qk]) = 0
                   THEN [s EXCEPT !.cur_windows = dict_pop(@, qk),
                                  !.ref_windows = dict_pop(@, qk),
                                  !.order = SelectSeq(@, LAMBDA k : k # qk)]
                   ELSE SpikeRule_handle_event(s, rules,
                            [ts |-> ts, qk |-> IF qk # "all" THEN qk ELSE NoKey,
                             placeholder |-> TRUE, val |-> None],
                            0, qk)
         IN  SpikeRule_gc_loop(s1, rules, ts, Tail(keys))

\* SpikeRule.garbage_collect
SpikeRule_garbage_collect(s, rules, ts) == SpikeRule_gc_loop(s, rules, ts, s.order)

\* SpikeRule.__init__
SpikeRule(rules) ==
    [rules |-> rules, ref_windows |-> <<>>, cur_windows |-> <<>>, order |-> <<>>,
     first_event |-> <<>>, skip_checks |-> <<>>, ref_window_filled_once |-> FALSE,
     matches |-> <<>>, err |-> "none", log |-> <<>>, calls |-> 0, op |-> "init"]

(***************************************************************************)
(* SpecSpike: one SpikeRule driven by the scheduler.  A rule is fed through *)
(* one ingest channel, the one its configuration selects, and is garbage    *)
(* collected in between.                                                    *)
(***************************************************************************)
SpMaxCalls == 3
SpKeys == {"a", "b"}
SpRules ==
    {[timeframe |-> 1, spike_height |-> 2, spike_type |-> "both", query_key |-> TRUE,
      alert_on_new_data |-> TRUE, threshold_cur |-> 0, threshold_ref |-> 0,
      field_value |-> FALSE, metric_agg_type |-> "none", channel |-> "events"],
     [timeframe |-> 1, spike_height |-> 2, spike_type |-> "up", query_key |-> TRUE,
      alert_on_new_data |-> FALSE, threshold_cur |-> 1, threshold_ref |-> 0,
      field_value |-> FALSE, metric_agg_type |-> "none", channel |-> "terms"],
     [timeframe |-> 2, spike_height |-> 2, spike_type |-> "down", query_key |-> FALSE,
      alert_on_new_data |-> TRUE, threshold_cur |-> 0, threshold_ref |-> 1,
      field_value |-> FALSE, metric_agg_type |-> "none", channel |-> "counts"],
     [timeframe |-> 1, spike_height |-> 2, spike_type |-> "both", query_key |-> FALSE,
      alert_on_new_data |-> FALSE, threshold_cur |-> 0, threshold_ref |-> 0,
      field_value |-> TRUE, metric_agg_type |-> "none", channel |-> "events"],
     [timeframe |-> 1, spike_height |-> 2, spike_type |-> "up", query_key |-> FALSE,
      alert_on_new_data |-> FALSE, threshold_cur |-> 0, threshold_ref |-> 0,
      field_value |-> FALSE, metric_agg_type |-> "none", channel |-> "events"]}

\* timestamps reach past the cooldown of a match at the end of the first warm-up
SpTimes(rules) == 0..(2 * rules.timeframe + 2)

SpEvents(rules) ==
    {[ts |-> t, qk |-> k, placeholder |-> FALSE, val |-> v] :
        t \in SpTimes(rules),
        k \in IF rules.query_key THEN SpKeys ELSE {NoKey},
        v \in IF rules.field_value THEN {None, Int2Val(0), Int2Val(1), Int2Val(2)}
              ELSE {None}}

\* batches of add_data: none, one event, or the same event twice
SpBatches(rules) ==
    SeqsUpTo(SpEvents(rules), 1) \cup {<<e, e>> : e \in SpEvents(rules)}

SpCountData(rules) ==
    {[keys |-> {"endtime", "count"}, endtime |-> t, count |-> c] :
        t \in SpTimes(rules), c \in {0, 1, 2}}
    \cup {[keys |-> {"endtime"}, endtime |-> 0, count |-> 0]}

\* bucket lists of a terms aggregation: none, one bucket, or one bucket per key
SpBuckets ==
    SeqsUpTo({[key |-> k, doc_count |-> c] : k \in SpKeys, c \in {1, 2}}, 1)
    \cup {<<[key |-> "a", doc_count |-> 1], [key |-> "b", doc_count |-> 2]>>}

SpCall == [sp EXCEPT !.err = "none", !.log = <<>>, !.calls = @ + 1]

SpInit == \E rules \in SpRules : sp = SpikeRule(rules)

SpAddData ==
    /\ sp.calls < SpMaxCalls
    /\ sp.rules.channel = "events"
    /\ \E data \in SpBatches(sp.rules) :
        sp' = [SpikeRule_add_data(SpCall, sp.rules, data) EXCEPT !.op = "add_data"]

SpAddCountData ==
    /\ sp.calls < SpMaxCalls
    /\ sp.rules.channel = "counts"
    /\ \E d \in SpCountData(sp.rules) :
        sp' = [SpikeRule_add_count_data(SpCall, sp.rules, d) EXCEPT !.op = "add_count_data"]

SpAddTermsData ==
    /\ sp.calls < SpMaxCalls
    /\ sp.rules.channel = "terms"
    /\ \E t \in SpTimes(sp.rules), buckets \in SpBuckets :
        sp' = [SpikeRule_add_terms_data(SpCall, sp.rules, t, buckets)
                  EXCEPT !.op = "add_terms_data"]

SpGarbageCollect ==
    /\ sp.calls < SpMaxCalls
    /\ \E t \in SpTimes(sp.rules) :
        sp' = [SpikeRule_garbage_collect(SpCall, sp.rules, t) EXCEPT !.op = "garbage_collect"]

SpNext ==
    \/ SpAddData /\ UNCHANGED <<ew, fr, tw, nt, fl, ch, ca, cr, rt, fm, ag, bf>>
    \/ SpAddCountData /\ UNCHANGED <<ew, fr, tw, nt, fl, ch, ca, cr, rt, fm, ag, bf>>
    \/ SpAddTermsData /\ UNCHANGED <<ew, fr, tw, nt, fl, ch, ca, cr, rt, fm, ag, bf>>
    \/ SpGarbageCollect /\ UNCHANGED <<ew, fr, tw, nt, fl, ch, ca, cr, rt, fm, ag, bf>>

SpecSpikeInit ==
    /\ SpInit /\ ew = NoObject /\ fr = NoObject /\ tw = NoObject
    /\ nt = NoObject /\ fl = NoObject /\ ch = NoObject
    /\ ca = NoObject /\ cr = NoObject /\ rt = NoObject /\ fm = NoObject /\ ag = NoObject /\ bf = NoObject

SpecSpike == SpecSpikeInit /\ [][SpNext]_vars

\* the timestamp of first_event[k] that a step compares its event with: the
\* recorded one, or the event's own when the step is the first for k
StepFirstTs(st) ==
    IF st.qk \in DOMAIN st.first_event THEN st.first_event[st.qk].ts ELSE st.event.ts

\* C3: a SpikeRule step for key k (an event or a garbage-collection placeholder)
\* whose timestamp is less than 2*timeframe after first_event[k] emits a match
\* only if an earlier step had already passed the 2*timeframe gate, the rule
\* has query_key and alert_on_new_data, and k is not in cooldown.
C3_WarmUpGate ==
    \A i \in 1..Len(sp.log) :
        LET st == sp.log[i]
        IN  (st.after > st.before
             /\ st.event.ts - StepFirstTs(st) < 2 * sp.rules.timeframe)
            => /\ st.filled
               /\ sp.rules.query_key /\ sp.rules.alert_on_new_data
               /\ ~(st.qk \in DOMAIN st.skip_checks
                    /\ st.event.ts < st.skip_checks[st.qk])

\* C3 witness: a match emitted inside the warm-up of its key, under
\* alert_on_new_data, for a key whose cooldown has run out.
C3_Witness ==
    \E i \in 1..Len(sp.log) :
        LET st == sp.log[i]
        IN  /\ st.after > st.before
            /\ st.event.ts - StepFirstTs(st) < 2 * sp.rules.timeframe
            /\ st.qk \in DOMAIN st.skip_checks

\* C3 witness: a match emitted inside the warm-up of a key that was never seen
\* before, after another key had passed the gate.
C3_WitnessNewKey ==
    \E i \in 1..Len(sp.log) :
        LET st == sp.log[i]
        IN  /\ st.after > st.before
            /\ st.qk \notin DOMAIN st.first_event
            /\ st.qk \notin DOMAIN st.skip_checks
            /\ st.filled

\* C3 witness: a step inside the warm-up whose comparison would have matched
\* was suppressed, and a later step past the gate matched.
C3_WitnessSuppressed ==
    /\ Len(sp.matches) > 0
    /\ \E i \in 1..Len(sp.log) :
        LET st == sp.log[i]
        IN  /\ st.after = st.before
            /\ st.filled
            /\ st.qk \in DOMAIN st.skip_checks
            /\ st.event.ts < st.skip_checks[st.qk]

\* the last step of the last call emitted a match
SpLastStepMatched ==
    /\ Len(sp.log) > 0
    /\ sp.log[Len(sp.log)].after = sp.log[Len(sp.log)].before + 1
    /\ sp.err = "none"

\* C17: when a SpikeRule emits a match for key k, the same step clears both
\* the current and the reference window of k (no entries, count 0), removes
\* first_event[k] and sets skip_checks[k] to the matched event's timestamp
\* plus 2*timeframe.
C17_MatchResets ==
    SpLastStepMatched =>
        LET k     == sp.log[Len(sp.log)].qk
            match == sp.matches[Len(sp.matches)]
        IN  /\ sp.cur_windows[k].data = <<>> /\ sp.cur_windows[k].running_count = 0
            /\ sp.ref_windows[k].data = <<>> /\ sp.ref_windows[k].running_count = 0
            /\ k \notin DOMAIN sp.first_event
            /\ k \in DOMAIN sp.skip_checks
            /\ sp.skip_checks[k] = match.ts.rfc3339 + 2 * sp.rules.timeframe

\* what the step leaves: the reference window cleared, first_event[k] removed,
\* the cooldown set, and the current window as it was when the match fired
C17_Observed ==
    SpLastStepMatched =>
        LET k     == sp.log[Len(sp.log)].qk
            match == sp.matches[Len(sp.matches)]
        IN  /\ Len(sp.cur_windows[k].data) > 0
            /\ sp.ref_windows[k].data = <<>> /\ sp.ref_windows[k].running_count = 0
            /\ k \notin DOMAIN sp.first_event
            /\ k \in DOMAIN sp.skip_checks
            /\ sp.skip_checks[k] = match.ts.rfc3339 + 2 * sp.rules.timeframe

\* the step is an add_count_data call that was rejected: no event was handled
SpCountDataRejected ==
    /\ sp'.calls = sp.calls + 1
    /\ sp'.op = "add_count_data"
    /\ sp'.log = <<>>

\* the windows, first_event and the match buffer are as before the step
SpStateKept ==
    /\ sp'.cur_windows = sp.cur_windows /\ sp'.ref_windows = sp.ref_windows
    /\ sp'.first_event = sp.first_event /\ sp'.matches = sp.matches

\* C19: add_count_data with a payload that lacks endtime or count is rejected
\* with EAException and leaves the windows, first_event and the match buffer
\* unchanged (stated here for SpikeRule; FrequencyRule, which FlatlineRule
\* inherits from, raises EAException at lines 230-231).
C19_CountDataRejected ==
    [][SpCountDataRejected => sp'.err = "EAException" /\ SpStateKept]_vars

\* what SpikeRule does with such a payload: KeyError, state unchanged
C19_Observed ==
    [][SpCountDataRejected => sp'.err = "KeyError" /\ SpStateKept]_vars

\* a SpikeRule holding events rejected a payload without count
C19_SpikeKeyError ==
    /\ sp.op = "add_count_data" /\ sp.log = <<>> /\ sp.err = "KeyError"
    /\ sp.calls = 2 /\ DOMAIN sp.cur_windows # {}

\* the two windows of key k lie back to back: no entry is in both, no
\* reference timestamp is after a current one, and each spans less than
\* timeframe
SpBackToBack(k) ==
    LET ref == sp.ref_windows[k]
        cur == sp.cur_windows[k]
    IN  /\ Range(ref.data) \cap Range(cur.data) = {}
        /\ \A i \in 1..Len(ref.data), j \in 1..Len(cur.data) :
              get_ts(ref.data[i]) <= get_ts(cur.data[j])
        /\ EventWindow_duration(ref) < sp.rules.timeframe
        /\ EventWindow_duration(cur) < sp.rules.timeframe

\* the entries the last step evicted from the current window of its key are
\* in the reference window, unless the step went on to match (which clears
\* the reference window) or the reference window, reaching timeframe, evicted
\* them in turn
SpEvictedEnterReference ==
    Len(sp.log) > 0 =>
        LET st == sp.log[Len(sp.log)]
            ref == sp.ref_windows[st.qk]
        IN  st.after = st.before =>
                \A i \in 1..Len(st.evicted) :
                    \/ st.evicted[i] \in Range(ref.data)
                    \/ /\ Len(ref.data) > 0
                       /\ get_ts(ref.data[Len(ref.data)]) - get_ts(st.evicted[i])
                              >= sp.rules.timeframe
                       /\ get_ts(st.evicted[i]) <= get_ts(ref.data[1])

\* C23: every entry evicted from the current window of a SpikeRule key is
\* appended to that key's reference window in the same step, and in every
\* reachable state no entry is held by both windows of a key, every
\* reference-window timestamp is <= every current-window timestamp of the
\* key, and each window spans less than timeframe.
C23_BackToBack ==
    /\ DOMAIN sp.ref_windows = DOMAIN sp.cur_windows
    /\ \A k \in DOMAIN sp.cur_windows : SpBackToBack(k)
    /\ SpEvictedEnterReference

\* C23 witness: the last step evicted an entry from the current window and
\* the reference window holds it next to an entry evicted by an earlier step
C23_Witness ==
    /\ Len(sp.log) > 0
    /\ LET st == sp.log[Len(sp.log)]
       IN  /\ Len(st.evicted) = 1
           /\ Len(sp.log) = 1
           /\ st.after = st.before
           /\ Len(sp.ref_windows[st.qk].data) >= 2
           /\ st.evicted[1] \in Range(sp.ref_windows[st.qk].data)
           /\ Len(sp.cur_windows[st.qk].data) >= 1

\* C34: a SpikeRule with threshold_cur and threshold_ref unset never emits a
\* match whose spike_count and reference_count are both zero.
C34_NoZeroZeroMatch ==
    (sp.rules.threshold_cur = 0 /\ sp.rules.threshold_ref = 0) =>
        \A i \in 1..Len(sp.matches) :
            ~(sp.matches[i].spike_count = Int2Val(0)
              /\ sp.matches[i].reference_count = Int2Val(0))

\* a rule of spike_type up without query_key got one event and then only
\* garbage_collect calls, and the last of them emitted a match of 0 against
\* 0 on its placeholder
C34_PlaceholdersAlone ==
    /\ sp.rules.spike_type = "up" /\ ~sp.rules.query_key /\ ~sp.rules.field_value
    /\ sp.rules.threshold_cur = 0 /\ sp.rules.threshold_ref = 0
    /\ sp.op = "garbage_collect" /\ sp.calls = 3
    /\ Len(sp.matches) = 1
    /\ sp.matches[1].placeholder
    /\ sp.matches[1].spike_count = Int2Val(0)
    /\ sp.matches[1].reference_count = Int2Val(0)

\* with a metric field (field_value) no match has a zero or missing mean on
\* either side
C34_MetricNeverZero ==
    sp.rules.field_value =>
        \A i \in 1..Len(sp.matches) :
            /\ ~IsNone(sp.matches[i].spike_count) /\ sp.matches[i].spike_count.num # 0
            /\ ~IsNone(sp.matches[i].reference_count)
            /\ sp.matches[i].reference_count.num # 0

(***************************************************************************)
(* SpecSpikeScn: a SpikeRule (spike_type up, no query_key) fed the stream   *)
(* of the worked example: one event per time unit for t = 0 .. 2*timeframe  *)
(* - 1, then burst events at t = 2*timeframe.  The scheduler hands the      *)
(* stream over in add_data calls of one or two events.  sp carries, besides *)
(* the fields of the rule, the burst size and the number of events fed.     *)
(***************************************************************************)
SpScenarios ==
    {[timeframe |-> 10, spike_height |-> 3, burst |-> 10],
     [timeframe |-> 10, spike_height |-> 3, burst |-> 30],
     [timeframe |-> 5, spike_height |-> 2, burst |-> 10]}

SpScnRules(scn) ==
    [timeframe |-> scn.timeframe, spike_height |-> scn.spike_height, spike_type |-> "up",
     query_key |-> FALSE, alert_on_new_data |-> FALSE, threshold_cur |-> 0,
     threshold_ref |-> 0, field_value |-> FALSE, metric_agg_type |-> "none",
     channel |-> "events"]

\* the i-th event of the stream
SpScnEvent(i) ==
    [ts |-> Min2(i - 1, 2 * sp.rules.timeframe), qk |-> NoKey, placeholder |-> FALSE,
     val |-> None]

SpScnLength == 2 * sp.rules.timeframe + sp.burst

SpScnInit ==
    \E scn \in SpScenarios :
        sp = SpikeRule(SpScnRules(scn)) @@ [burst |-> scn.burst, fed |-> 0]

SpScnFeed ==
    \E n \in 1..2 :
        /\ sp.fed + n <= SpScnLength
        /\ sp' = [SpikeRule_add_data(SpCall, sp.rules,
                                     [i \in 1..n |-> SpScnEvent(sp.fed + i)])
                     EXCEPT !.op = "add_data", !.fed = @ + n]

SpScnNext == SpScnFeed /\ UNCHANGED <<ew, fr, tw, nt, fl, ch, ca, cr, rt, fm, ag, bf>>

SpecSpikeScnInit ==
    /\ SpScnInit /\ ew = NoObject /\ fr = NoObject /\ tw = NoObject
    /\ nt = NoObject /\ fl = NoObject /\ ch = NoObject
    /\ ca = NoObject /\ cr = NoObject /\ rt = NoObject /\ fm = NoObject /\ ag = NoObject /\ bf = NoObject

SpecSpikeScn == SpecSpikeScnInit /\ [][SpScnNext]_vars

\* the worked example itself: timeframe 10, spike_height 3, 10 events at t = 20
SpScnExample ==
    sp.rules.timeframe = 10 /\ sp.rules.spike_height = 3 /\ sp.burst = 10

\* C8 as stated: once the stream of the worked example is fed, the rule has
\* emitted exactly one match, whose reference_count is about 10 and whose
\* spike_count is >= 30.
C8_Original ==
    (SpScnExample /\ sp.fed = SpScnLength) =>
        /\ Len(sp.matches) = 1
        /\ sp.matches[1].reference_count.num \in 9..11
        /\ sp.matches[1].spike_count.num >= 30

\* C8 amended: the stream of the worked example emits no match at all; when it
\* is fed the reference window counts 10 events (t = 1..10) and the current
\* window 19 (t = 11..19 and the 10 events at t = 20), below 3 * 10.
C8_NoMatch ==
    SpScnExample =>
        /\ sp.matches = <<>>
        /\ sp.fed = SpScnLength =>
            /\ EventWindow_count(sp.ref_windows["all"]) = 10
            /\ EventWindow_count(sp.cur_windows["all"]) = 19
            /\ sp.ref_window_filled_once

\* C8 witness: the whole stream of the worked example has been fed, the last
\* event passed the 2*timeframe gate and the comparison was made.
C8_Witness ==
    /\ SpScnExample
    /\ sp.fed = SpScnLength
    /\ sp.ref_window_filled_once
    /\ sp.log[Len(sp.log)].event.ts = 20
    /\ Len(sp.cur_windows["all"].data) = 19

(***************************************************************************)
(* TermsWindow (ruletypes.py 431-525)                                      *)
(* tw = [term_window_size, threshold, threshold_window_size, data,         *)
(* existing_terms, count_dict, potential_new_term_windows, err, last,      *)
(* calls].  A tuple of data is <<timestamp, terms, counts>>.  err is the   *)
(* exception the last call raised; last records the last call, for add     *)
(* the window as the call found it and, in SpecTerms, the order of the     *)
(* calls so far (phase).                                                   *)
(***************************************************************************)
\* TermsWindow.__init__
TermsWindow(term_window_size, threshold, threshold_window_size) ==
    [term_window_size |-> term_window_size, threshold |-> threshold,
     threshold_window_size |-> threshold_window_size,
     data |-> <<>>, existing_terms |-> {}, count_dict |-> <<>>,
     potential_new_term_windows |-> <<>>,
     err |-> "none", last |-> [op |-> "init"], calls |-> 0]

\* sortedlist(key = lambda x: x[0]).add: bisect_right on the timestamp
TermsWindow_data_add(data, tuple) ==
    LET n == Cardinality({i \in 1..Len(data) : data[i][1] <= tuple[1]})
    IN  SubSeq(data, 1, n) \o <<tuple>> \o SubSeq(data, n + 1, Len(data))

RECURSIVE TermsWindow_resize_keys(_, _, _, _)
\* the for loop of resize over a popped tuple: subtracts the counts; a term
\* whose count reaches 0 leaves count_dict and existing_terms; a term that is
\* not a key of count_dict raises KeyError
TermsWindow_resize_keys(s, keys, counts, i) ==
    IF i > Len(keys) THEN s
    ELSE IF keys[i] \notin DOMAIN s.count_dict THEN [s EXCEPT !.err = "KeyError"]
    ELSE LET c == s.count_dict[keys[i]] - counts[i]
         IN  TermsWindow_resize_keys(
                 IF c <= 0
                 THEN [s EXCEPT !.count_dict = dict_pop(@, keys[i]),
                                !.existing_terms = @ \ {keys[i]}]
                 ELSE [s EXCEPT !.count_dict[keys[i]] = c],
                 keys, counts, i + 1)

RECURSIVE TermsWindow_resize_loop(_, _)
\* mutant of TermsWindow_resize_loop: a tuple at exactly till is popped too
TermsWindow_resize_loop_Inclusive(s, till) ==
    IF s.err = "none" /\ Len(s.data) # 0 /\ s.data[1][1] <= till
    THEN LET popped == s.data[1]
         IN  TermsWindow_resize_loop(
                 TermsWindow_resize_keys([s EXCEPT !.data = Tail(@)],
                                         popped[2], popped[3], 1),
                 till)
    ELSE s

\* the while loop of resize: pops data[0] while its timestamp is below till
TermsWindow_resize_loop(s, till) ==
    IF s.err = "none" /\ Len(s.data) # 0 /\ s.data[1][1] < till
    THEN LET popped == s.data[1]
         IN  TermsWindow_resize_loop(
                 TermsWindow_resize_keys([s EXCEPT !.data = Tail(@)],
                                         popped[2], popped[3], 1),
                 till)
    ELSE s

\* TermsWindow.resize(till)
TermsWindow_resize_till(s, till) ==
    IF Len(s.data) = 0 THEN s ELSE TermsWindow_resize_loop(s, till)

\* TermsWindow.resize(): till = data[-1][0] - term_window_size
TermsWindow_resize(s) ==
    IF Len(s.data) = 0 THEN s
    ELSE TermsWindow_resize_loop(s, s.data[Len(s.data)][1] - s.term_window_size)

RECURSIVE TermsWindow_add_loop(_, _, _, _)
\* the for loop of add over zip(terms, counts)
TermsWindow_add_loop(s, terms, counts, i) ==
    IF i > Min2(Len(terms), Len(counts)) THEN s
    ELSE LET cd == IF terms[i] \in DOMAIN s.count_dict THEN s.count_dict
                   ELSE s.count_dict @@ (terms[i] :> 0)
         IN  TermsWindow_add_loop(
                 [s EXCEPT !.count_dict = [cd EXCEPT ![terms[i]] = @ + counts[i]],
                           !.existing_terms = @ \cup {terms[i]}],
                 terms, counts, i + 1)

\* TermsWindow.add
TermsWindow_add(s, timestamp, terms, counts) ==
    LET s1 == TermsWindow_add_loop(s, terms, counts, 1)
    IN  TermsWindow_resize(
            [s1 EXCEPT !.data = TermsWindow_data_add(@, <<timestamp, terms, counts>>)])

\* the indices of zip(terms, counts) whose term is, or is not, in existing
TermsWindow_split_idx(existing, terms, counts, seen) ==
    {i \in 1..Min2(Len(terms), Len(counts)) : (terms[i] \in existing) = seen}

RECURSIVE TermsWindow_pick(_, _, _)
\* the subsequence of seq at the indices of idx from i on, in order
TermsWindow_pick(seq, idx, i) ==
    IF i > Len(seq) THEN <<>>
    ELSE (IF i \in idx THEN <<seq[i]>> ELSE <<>>) \o TermsWindow_pick(seq, idx, i + 1)

\* TermsWindow.split: expires the tuples older than timestamp -
\* term_window_size, then partitions the terms by membership in existing_terms
TermsWindow_split(s, timestamp, terms, counts) ==
    LET s1     == TermsWindow_resize_till(s, timestamp - s.term_window_size)
        seen   == TermsWindow_split_idx(s1.existing_terms, terms, counts, TRUE)
        unseen == TermsWindow_split_idx(s1.existing_terms, terms, counts, FALSE)
    IN  [s |-> s1,
         seen_terms |-> TermsWindow_pick(terms, seen, 1),
         seen_counts |-> TermsWindow_pick(counts, seen, 1),
         unseen_terms |-> TermsWindow_pick(terms, unseen, 1),
         unseen_counts |-> TermsWindow_pick(counts, unseen, 1)]

RECURSIVE TermsWindow_update_potential_new_term_windows(_, _, _, _, _)
\* TermsWindow.update_potential_new_term_windows: appends ({ts_field:
\* timestamp}, count) to the candidate window of every unseen term
TermsWindow_update_potential_new_term_windows(s, timestamp, terms, counts, i) ==
    IF i > Len(terms) THEN s
    ELSE LET d == setdefault_window(s.potential_new_term_windows, terms[i],
                                    s.threshold_window_size)
             w == EventWindow_append(d[terms[i]], <<[ts |-> timestamp], counts[i]>>).w
         IN  TermsWindow_update_potential_new_term_windows(
                 [s EXCEPT !.potential_new_term_windows = [d EXCEPT ![terms[i]] = w]],
                 timestamp, terms, counts, i + 1)

\* mutant of TermsWindow_crossed: > for >=
TermsWindow_crossed_Strict(window, threshold) == EventWindow_count(window) > threshold

\* the condition of extract_new_terms
TermsWindow_crossed(window, threshold) == EventWindow_count(window) >= threshold

RECURSIVE TermsWindow_extract_new_terms(_, _, _, _)
\* mutant of TermsWindow_extract_new_terms: the window of a promoted term is
\* not popped
TermsWindow_extract_new_terms_KeepWindow(r, terms, counts, i) ==
    IF i > Len(terms) \/ r.s.err # "none" THEN r
    ELSE IF terms[i] \notin DOMAIN r.s.potential_new_term_windows
    THEN [r EXCEPT !.s.err = "AttributeError"]
    ELSE TermsWindow_extract_new_terms(
             IF TermsWindow_crossed(r.s.potential_new_term_windows[terms[i]], r.s.threshold)
             THEN [s |-> r.s,
                   new_terms |-> Append(r.new_terms, terms[i]),
                   new_counts |-> Append(r.new_counts, counts[i])]
             ELSE r,
             terms, counts, i + 1)

\* TermsWindow.extract_new_terms: r = [s, new_terms, new_counts]; a term whose
\* window was already popped (a repeated term) has no window: .count() on None
TermsWindow_extract_new_terms(r, terms, counts, i) ==
    IF i > Len(terms) \/ r.s.err # "none" THEN r
    ELSE IF terms[i] \notin DOMAIN r.s.potential_new_term_windows
    THEN [r EXCEPT !.s.err = "AttributeError"]
    ELSE TermsWindow_extract_new_terms(
             IF TermsWindow_crossed(r.s.potential_new_term_windows[terms[i]], r.s.threshold)
             THEN [s |-> [r.s EXCEPT !.potential_new_term_windows = dict_pop(@, terms[i])],
                   new_terms |-> Append(r.new_terms, terms[i]),
                   new_counts |-> Append(r.new_counts, counts[i])]
             ELSE r,
             terms, counts, i + 1)

\* TermsWindow.get_new_terms; the result is the window with the call recorded
\* in last: the terms returned, the existing terms seen by split and the
\* candidate windows as extract_new_terms found them
TermsWindow_get_new_terms(s, timestamp, terms, counts) ==
    LET sp1 == TermsWindow_split(s, timestamp, terms, counts)
        s2  == TermsWindow_update_potential_new_term_windows(
                   sp1.s, timestamp, sp1.unseen_terms, sp1.unseen_counts, 1)
        ex  == TermsWindow_extract_new_terms(
                   [s |-> s2, new_terms |-> <<>>, new_counts |-> <<>>],
                   sp1.unseen_terms, sp1.unseen_counts, 1)
        s4  == TermsWindow_add(ex.s, timestamp, sp1.seen_terms \o ex.new_terms,
                               sp1.seen_counts \o ex.new_counts)
        rec == [op |-> "get_new_terms", timestamp |-> timestamp, terms |-> terms,
                counts |-> counts, existing |-> sp1.s.existing_terms,
                candidates |-> s2.potential_new_term_windows]
    IN  IF sp1.s.err # "none"
        THEN [sp1.s EXCEPT !.last = [new_terms |-> <<>>, new_counts |-> <<>>,
                                     candidates |-> sp1.s.potential_new_term_windows] @@ rec]
        ELSE IF ex.s.err # "none"
        THEN [ex.s EXCEPT !.last = rec @@ [new_terms |-> <<>>, new_counts |-> <<>>]]
        ELSE [s4 EXCEPT !.last = rec @@ [new_terms |-> IF s4.err = "none" THEN ex.new_terms ELSE <<>>,
                                         new_counts |-> IF s4.err = "none" THEN ex.new_counts ELSE <<>>]]

(***************************************************************************)
(* SpecTerms: one TermsWindow, backfilled by add and driven by             *)
(* get_new_terms with term lists without repetition, counts 0 or 1 and     *)
(* timestamps in any order.                                                *)
(***************************************************************************)
TwMaxCalls == 3

TwTimes == 0..3

TwConfigs == {[term_window_size |-> 2, threshold |-> th, threshold_window_size |-> 2] : th \in 0..2}

\* the (terms, counts) pairs of a call: no term twice
TwBuckets ==
    {b \in [terms : {<<>>, <<"x">>, <<"y">>, <<"x", "y">>}, counts : SeqsUpTo(0..1, 2)] :
        Len(b.terms) = Len(b.counts)}

TwCall == [tw EXCEPT !.err = "none", !.calls = @ + 1]

\* the order of the calls so far: "backfill" while only add has been called
\* (NewTermsRule.get_all_terms), "running" once get_new_terms has been called
\* and no add since (NewTermsRule.add_terms_data), "mixed" when add was
\* called after a get_new_terms
TwPhase == IF tw.last.op = "init" THEN "backfill" ELSE tw.last.phase

TwInit ==
    \E c \in TwConfigs :
        tw = TermsWindow(c.term_window_size, c.threshold, c.threshold_window_size)

TwAdd ==
    /\ tw.calls < TwMaxCalls
    /\ \E t \in TwTimes, b \in TwBuckets :
        tw' = [TermsWindow_add(TwCall, t, b.terms, b.counts)
                  EXCEPT !.last = [op |-> "add", timestamp |-> t, terms |-> b.terms,
                                   counts |-> b.counts,
                                   phase |-> IF TwPhase = "backfill" THEN "backfill"
                                             ELSE "mixed",
                                   before |-> [data |-> tw.data,
                                               count_dict |-> tw.count_dict,
                                               existing_terms |-> tw.existing_terms]]]
    /\ UNCHANGED <<ew, fr, sp, nt, fl, ch, ca, cr, rt, fm, ag, bf>>

TwGetNewTerms ==
    /\ tw.calls < TwMaxCalls
    /\ \E t \in TwTimes, b \in TwBuckets :
        tw' = [TermsWindow_get_new_terms(TwCall, t, b.terms, b.counts)
                  EXCEPT !.last = @ @@ [phase |-> IF TwPhase = "mixed" THEN "mixed"
                                                  ELSE "running"]]
    /\ UNCHANGED <<ew, fr, sp, nt, fl, ch, ca, cr, rt, fm, ag, bf>>

TwNext == TwAdd \/ TwGetNewTerms

SpecTermsInit ==
    /\ TwInit /\ ew = NoObject /\ fr = NoObject /\ sp = NoObject
    /\ nt = NoObject /\ fl = NoObject /\ ch = NoObject
    /\ ca = NoObject /\ cr = NoObject /\ rt = NoObject /\ fm = NoObject /\ ag = NoObject /\ bf = NoObject

SpecTerms == SpecTermsInit /\ [][TwNext]_vars

\* the span between the oldest and the newest tuple of data
TermsWindow_duration(s) ==
    IF Len(s.data) = 0 THEN 0 ELSE s.data[Len(s.data)][1] - s.data[1][1]

\* C4: after any sequence of add and get_new_terms calls with non-negative
\* counts, every term of existing_terms has a positive count_dict entry and
\* the span of data is at most term_window_size.
C4_ExistingPositive ==
    /\ \A t \in tw.existing_terms : t \in DOMAIN tw.count_dict /\ tw.count_dict[t] > 0
    /\ TermsWindow_duration(tw) <= tw.term_window_size

\* the terms get_new_terms returned in the last call
TwReturned == Range(tw.last.new_terms)

\* the terms of the last call that split found unseen
TwUnseen == Range(tw.last.terms) \ tw.last.existing

\* C5: get_new_terms returns a term t iff t is not in existing_terms once the
\* stale tuples have expired and the counts of t's candidate window, this
\* call's count included, sum to at least threshold; afterwards every returned
\* term is in existing_terms and has no candidate window, and every other
\* candidate keeps its window.
C5_PromotedIff ==
    tw.last.op = "get_new_terms" =>
        /\ \A t \in Range(tw.last.terms) :
              t \in TwReturned <=>
                  /\ t \notin tw.last.existing
                  /\ t \in DOMAIN tw.last.candidates
                  /\ SumCounts(tw.last.candidates[t].data) >= tw.threshold
        /\ \A t \in TwReturned :
              t \in tw.existing_terms /\ t \notin DOMAIN tw.potential_new_term_windows
        /\ \A t \in DOMAIN tw.last.candidates \ TwReturned :
              t \in DOMAIN tw.potential_new_term_windows

\* the count a tuple of data carries for term t
TwTupleCount(tuple, t) ==
    SeqSum([i \in 1..Len(tuple[2]) |-> IF tuple[2][i] = t THEN tuple[3][i] ELSE 0])

\* the count the tuples of data carry for term t
TwDataCount(data, t) == SeqSum([j \in 1..Len(data) |-> TwTupleCount(data[j], t)])

\* r is s after resize(till) as described: the tuples below till are gone and
\* no other, their counts are subtracted from count_dict, and a term leaves
\* count_dict and existing_terms exactly when a removed tuple carried it and
\* nothing of its count remains (reference value)
TwResizedExactly(s, till, r) ==
    LET removed == SelectSeq(s.data, LAMBDA d : d[1] < till)
    IN  /\ r.err = "none"
        /\ r.data = SelectSeq(s.data, LAMBDA d : d[1] >= till)
        /\ DOMAIN r.count_dict \subseteq DOMAIN s.count_dict
        /\ r.existing_terms \subseteq s.existing_terms
        /\ \A t \in DOMAIN s.count_dict :
              LET remaining == s.count_dict[t] - TwDataCount(removed, t)
              IN  IF (\E j \in 1..Len(removed) : t \in Range(removed[j][2]))
                     /\ remaining <= 0
                  THEN t \notin DOMAIN r.count_dict /\ t \notin r.existing_terms
                  ELSE /\ t \in DOMAIN r.count_dict
                       /\ r.count_dict[t] = remaining
                       /\ t \in r.existing_terms <=> t \in s.existing_terms

\* the window add hands to resize(): the counts added, the tuple inserted
TwBeforeResize(s, timestamp, terms, counts) ==
    [TermsWindow_add_loop(s, terms, counts, 1)
        EXCEPT !.data = TermsWindow_data_add(@, <<timestamp, terms, counts>>)]

\* the resize() that ends an add call, and the resize(till) that begins
\* get_new_terms, did as described
TwResizeOfStep(s, t) ==
    /\ t.last.op = "add" =>
          LET pre == TwBeforeResize(s, t.last.timestamp, t.last.terms, t.last.counts)
          IN  TwResizedExactly(pre, pre.data[Len(pre.data)][1] - s.term_window_size, t)
    /\ t.last.op = "get_new_terms" =>
          LET till == t.last.timestamp - s.term_window_size
              r    == TermsWindow_resize_till(s, till)
          IN  /\ TwResizedExactly(s, till, r)
              /\ t.last.existing = r.existing_terms

\* C30: TermsWindow.resize(till) removes exactly the tuples whose timestamp is
\* strictly less than till (till defaults to the newest timestamp minus
\* term_window_size), subtracts each removed tuple's counts from count_dict
\* term by term, and removes a term from count_dict and existing_terms exactly
\* when its remaining count reaches zero; a term whose count stays positive
\* remains existing.
C30_ResizeExact ==
    [][tw'.calls = tw.calls + 1 => TwResizeOfStep(TwCall, tw')]_vars

\* the window holds only positive counts and count_dict is the sum of the
\* counts of its tuples
TwPositive(s) ==
    /\ \A j \in 1..Len(s.data) : \A i \in 1..Len(s.data[j][3]) : s.data[j][3][i] >= 1
    /\ \A t \in {"x", "y"} :
          IF TwDataCount(s.data, t) > 0
          THEN t \in DOMAIN s.count_dict /\ s.count_dict[t] = TwDataCount(s.data, t)
          ELSE t \notin DOMAIN s.count_dict

\* resize does as C30 says on a window of positive counts
C30_PositiveCounts ==
    [][(/\ tw'.calls = tw.calls + 1
        /\ TwPositive(tw)
        /\ \A i \in 1..Len(tw'.last.counts) : tw'.last.counts[i] >= 1) =>
            TwResizeOfStep(TwCall, tw')]_vars

\* add(3, ..) on a window of size 2 that held (0, [x, y], [1, 1]) and
\* (1, [y], [1]): the tuple at 0 is gone and x with it, the tuple at exactly
\* till = 1 is kept and y stays with count 1
C30_Observed ==
    /\ tw.last.op = "add" /\ tw.err = "none" /\ tw.last.timestamp = 3
    /\ tw.last.terms = <<>>
    /\ tw.last.before.data = << <<0, <<"x", "y">>, <<1, 1>>>>, <<1, <<"y">>, <<1>>>> >>
    /\ tw.last.before.existing_terms = {"x", "y"}
    /\ tw.data = << <<1, <<"y">>, <<1>>>>, <<3, <<>>, <<>>>> >>
    /\ tw.existing_terms = {"y"}
    /\ DOMAIN tw.count_dict = {"y"} /\ tw.count_dict["y"] = 1

\* resize raised KeyError: a tuple still in data carried a term that had
\* left count_dict
C30_ResizeRaised ==
    /\ tw.last.op = "add" /\ tw.err = "KeyError"
    /\ tw.last.before.data = << <<0, <<"x">>, <<0>>>>, <<0, <<"x">>, <<0>>>> >>
    /\ tw.last.timestamp = 3
    /\ tw.data = << <<3, <<>>, <<>>>> >>

\* the terms carried by the tuples retained in data
TwRetainedTerms(s) == UNION {Range(s.data[j][2]) : j \in 1..Len(s.data)}

\* C36: in a TermsWindow, after any sequence of add and get_new_terms calls
\* with non-negative counts, every term that appears in a tuple retained in
\* data is a key of count_dict, and resize does not fail.
C36_RetainedTermsCounted ==
    /\ TwRetainedTerms(tw) \subseteq DOMAIN tw.count_dict
    /\ tw.err # "KeyError"

\* every term retained with a count of at least 1 is a key of count_dict
C36_PositiveCounted ==
    \A j \in 1..Len(tw.data) : \A i \in 1..Len(tw.data[j][2]) :
        tw.data[j][3][i] >= 1 => tw.data[j][2][i] \in DOMAIN tw.count_dict

\* add(0, [x], [0]) then add(3, [x], [0]): the resize of the second call pops
\* the first tuple and with it x from count_dict, while the second tuple,
\* carrying x, is retained
C36_MissingKey ==
    /\ tw.calls = 2 /\ tw.err = "none" /\ tw.last.op = "add"
    /\ tw.last.before.data = << <<0, <<"x">>, <<0>>>> >>
    /\ tw.data = << <<3, <<"x">>, <<0>>>> >>
    /\ "x" \notin DOMAIN tw.count_dict
    /\ "x" \notin tw.existing_terms

\* existing_terms is the key set of count_dict, and no term is both existing
\* and a candidate
TwExistingApart(s) ==
    /\ s.existing_terms = DOMAIN s.count_dict
    /\ s.existing_terms \cap DOMAIN s.potential_new_term_windows = {}

\* C37 as stated: in a TermsWindow, after any sequence of add and
\* get_new_terms calls whose term lists contain no duplicates, existing_terms
\* equals the key set of count_dict, and no term is at the same time in
\* existing_terms and a key of potential_new_term_windows.
C37_AnySequence == TwExistingApart(tw)

\* C37 amended: the same after the add calls of the backfill followed by any
\* sequence of get_new_terms calls, which is the order NewTermsRule calls
\* them in; existing_terms equals the key set of count_dict after any
\* sequence.
C37_BackfillThenRun ==
    /\ tw.existing_terms = DOMAIN tw.count_dict
    /\ TwPhase # "mixed" => TwExistingApart(tw)

\* C37 witness: after a backfill the last get_new_terms call promoted x, which
\* is existing and has no candidate window, and left y a candidate that is
\* not existing
C37_Witness ==
    /\ tw.last.op = "get_new_terms" /\ tw.last.phase = "running" /\ tw.calls = 3
    /\ tw.err = "none"
    /\ tw.last.new_terms = <<"x">>
    /\ "x" \in tw.existing_terms /\ "x" \notin DOMAIN tw.potential_new_term_windows
    /\ "y" \in DOMAIN tw.potential_new_term_windows /\ "y" \notin tw.existing_terms
    /\ Len(tw.data) >= 2

\* get_new_terms left x a candidate and an add call then made x existing
\* without popping its candidate window
C37_AddAfterRun ==
    /\ tw.last.op = "add" /\ tw.last.phase = "mixed" /\ tw.calls = 2
    /\ "x" \in tw.existing_terms
    /\ "x" \in DOMAIN tw.potential_new_term_windows

(***************************************************************************)
(* NewTermsRule (ruletypes.py 856-1215), one non-composite field "f".      *)
(* nt = [rules, term_windows, matches, err, hist, calls]; the time unit is *)
(* 30 minutes; hist records every add_terms_data call: its payload and the *)
(* number of matches it appended.                                          *)
(***************************************************************************)
RECURSIVE NewTermsRule_get_all_terms(_, _, _, _, _)
\* the while loop of get_all_terms for the field: the backend is queried in
\* chunks of step up to end and each answer is added at the chunk's end; an
\* exception raised by add ends the loop
NewTermsRule_get_all_terms(window, tmp_start, end, step, baseline) ==
    IF window.err = "none" /\ tmp_start < end
    THEN LET tmp_end == Min2(tmp_start + step, end)
             bucket  == IF tmp_end \in DOMAIN baseline THEN baseline[tmp_end]
                        ELSE [terms |-> <<>>, counts |-> <<>>]
         IN  NewTermsRule_get_all_terms(
                 TermsWindow_add(window, tmp_end, bucket.terms, bucket.counts),
                 tmp_end, end, step, baseline)
    ELSE window

\* NewTermsRule.__init__: window_size is capped at 7 days (336 units),
\* threshold_window_size at 2 days (96 units), step is 1 hour (2 units); the
\* TermsWindow of the field is created by get_new_term_query and backfilled
\* from end - window_size to end = start_date
NewTermsRule(rules, baseline) ==
    LET window_size == Min2(rules.terms_window_size, 336)
        tws         == Min2(rules.threshold_window_size, 96)
        end         == rules.start_date
    IN  [rules |-> rules,
         term_windows |->
             ("f" :> NewTermsRule_get_all_terms(
                         TermsWindow(window_size, rules.threshold, tws),
                         end - window_size, end, 2, baseline)),
         matches |-> <<>>, err |-> "none", hist |-> <<>>, calls |-> 0]

RECURSIVE NewTermsRule_add_matches(_, _, _, _, _)
\* the for loop of add_terms_data over zip(new_terms, new_counts)
NewTermsRule_add_matches(matches, timestamp, new_terms, new_counts, i) ==
    IF i > Len(new_terms) THEN matches
    ELSE NewTermsRule_add_matches(
             RuleType_add_match(matches, [field |-> "f", ts |-> timestamp,
                                          new_value |-> new_terms[i],
                                          hits |-> new_counts[i]]),
             timestamp, new_terms, new_counts, i + 1)

\* NewTermsRule.add_terms_data({timestamp: {"f": (keys, counts)}})
NewTermsRule_add_terms_data(s, timestamp, keys, counts) ==
    LET before == s.term_windows["f"]
        w      == TermsWindow_get_new_terms([before EXCEPT !.err = "none"],
                                            timestamp, keys, counts)
        m      == IF w.err # "none" THEN s.matches
                  ELSE NewTermsRule_add_matches(s.matches, timestamp, w.last.new_terms,
                                                w.last.new_counts, 1)
    IN  [s EXCEPT !.term_windows["f"] = w,
                  !.err = w.err,
                  !.matches = m,
                  !.hist = Append(@, [timestamp |-> timestamp, keys |-> keys,
                                      counts |-> counts, data |-> before.data,
                                      first |-> Len(s.matches) + 1, last |-> Len(m)])]

(***************************************************************************)
(* SpecNewTerms: a NewTermsRule with threshold 2, threshold_window_size 1  *)
(* hour and terms_window_size 1 day, started at t = 0 on a backend that    *)
(* holds either nothing or the term "y", and fed terms data in any order.  *)
(***************************************************************************)
NtMaxCalls == 4

NtTimes == {0, 1, 2, 50}

NtBuckets ==
    {[terms |-> <<"x">>, counts |-> <<1>>], [terms |-> <<"x">>, counts |-> <<2>>],
     [terms |-> <<"y">>, counts |-> <<1>>]}

NtRules ==
    [threshold |-> 2, threshold_window_size |-> 2, terms_window_size |-> 48,
     start_date |-> 0]

\* what the backend answers to the backfill queries, by chunk end
NtBaselines == {<<>>, (0 :> [terms |-> <<"y">>, counts |-> <<1>>])}

NtInit == \E baseline \in NtBaselines : nt = NewTermsRule(NtRules, baseline)

NtAddTermsData ==
    /\ nt.calls < NtMaxCalls
    /\ \E t \in NtTimes, b \in NtBuckets :
        nt' = NewTermsRule_add_terms_data([nt EXCEPT !.calls = @ + 1, !.err = "none"],
                                          t, b.terms, b.counts)

NtNext == NtAddTermsData /\ UNCHANGED <<ew, fr, sp, tw, fl, ch, ca, cr, rt, fm, ag, bf>>

SpecNewTermsInit ==
    /\ NtInit /\ ew = NoObject /\ fr = NoObject /\ sp = NoObject
    /\ tw = NoObject /\ fl = NoObject /\ ch = NoObject
    /\ ca = NoObject /\ cr = NoObject /\ rt = NoObject /\ fm = NoObject /\ ag = NoObject /\ bf = NoObject

SpecNewTerms == SpecNewTermsInit /\ [][NtNext]_vars

\* the history starts with ("x", 1) at t = 0 and ("x", 1) at t = 30 min
NtExample(n) ==
    /\ Len(nt.hist) >= n
    /\ n >= 1 => /\ nt.hist[1].timestamp = 0
                 /\ nt.hist[1].keys = <<"x">> /\ nt.hist[1].counts = <<1>>
    /\ n >= 2 => /\ nt.hist[2].timestamp = 1
                 /\ nt.hist[2].keys = <<"x">> /\ nt.hist[2].counts = <<1>>

\* the matches a call of the history appended
NtMatchesOf(h) == SubSeq(nt.matches, h.first, h.last)

\* "x" was seen within term_window_size of the call: a tuple retained before
\* the call carries it and is not older than timestamp - term_window_size
NtStillExisting(h) ==
    \E i \in 1..Len(h.data) :
        /\ "x" \in Range(h.data[i][2])
        /\ h.data[i][1] >= h.timestamp - nt.term_windows["f"].term_window_size

\* C6: with no "x" known beforehand, ("x", 1) at t = 0 emits no match; a
\* second ("x", 1) at t = 30 min emits exactly one match with new_value "x"
\* and hits 1; every later ingest of "x" made while "x" is still an existing
\* term emits no match.
C6_NewTermsExample ==
    /\ NtExample(1) => NtMatchesOf(nt.hist[1]) = <<>>
    /\ NtExample(2) =>
          /\ Len(NtMatchesOf(nt.hist[2])) = 1
          /\ nt.matches[1].new_value = "x"
          /\ nt.matches[1].hits = 1
          /\ nt.matches[1].field = "f"
          /\ nt.matches[1].ts = dt_to_ts(1)
    /\ \A i \in 3..Len(nt.hist) :
          (NtExample(2) /\ "x" \in Range(nt.hist[i].keys) /\ NtStillExisting(nt.hist[i]))
              => NtMatchesOf(nt.hist[i]) = <<>>

\* C6 witness: after the two ingests of the example a later ingest of "x"
\* found it still existing
C6_Witness ==
    /\ NtExample(2)
    /\ Len(nt.hist) >= 3
    /\ nt.hist[3].keys = <<"x">>
    /\ NtStillExisting(nt.hist[3])
    /\ Len(nt.matches) = 1

\* after the example, an ingest of "x" made when "x" has expired matches again
C6_WitnessExpired ==
    /\ NtExample(2)
    /\ Len(nt.hist) >= 3
    /\ nt.hist[3].keys = <<"x">>
    /\ ~NtStillExisting(nt.hist[3])
    /\ Len(NtMatchesOf(nt.hist[3])) = 1

(***************************************************************************)
(* FlatlineRule (ruletypes.py 783-853), a FrequencyRule with its own       *)
(* check_for_match and garbage_collect.                                    *)
(* fl = [rules, occurrences, order, first_event, matches, err, hist,       *)
(* calls]; order lists the keys of occurrences in insertion order; hist    *)
(* lists the calls made.                                                   *)
(***************************************************************************)
\* occurrences.setdefault(key, EventWindow(..)) on the pair (occurrences, order)
FlatlineRule_setdefault(s, key) ==
    IF key \in DOMAIN s.occurrences THEN s
    ELSE [s EXCEPT !.occurrences = @ @@ (key :> EventWindow(s.rules.timeframe)),
                   !.order = Append(@, key)]

\* mutant of FlatlineRule_match: first_event is left alone after a match
FlatlineRule_match_KeepFirst(s, key, most_recent_ts) ==
    LET w     == s.occurrences[key]
        event == [w.data[Len(w.data)][1] EXCEPT !.key = key,
                                                !.count = EventWindow_count(w)]
    IN  IF ~s.rules.query_key THEN [s EXCEPT !.err = "KeyError"]
        ELSE LET s1 == [s EXCEPT !.matches =
                            RuleType_add_match(@, [event EXCEPT !.qk = key])]
             IN  IF ~s.rules.forget_keys THEN s1
                 ELSE [s1 EXCEPT !.first_event = dict_pop(@, key),
                                 !.occurrences = dict_pop(@, key),
                                 !.order = SelectSeq(@, LAMBDA k : k # key)]

\* the body of check_for_match once the timeframe has elapsed and the count
\* is below threshold: the match is the newest event with key and count set;
\* rules['query_key'] of a rule without query_key raises KeyError before
\* add_match
FlatlineRule_match(s, key, most_recent_ts) ==
    LET w     == s.occurrences[key]
        event == [w.data[Len(w.data)][1] EXCEPT !.key = key,
                                                !.count = EventWindow_count(w)]
    IN  IF ~s.rules.query_key THEN [s EXCEPT !.err = "KeyError"]
        ELSE LET s1 == [s EXCEPT !.matches =
                            RuleType_add_match(@, [event EXCEPT !.qk = key])]
             IN  IF ~s.rules.forget_keys
                 THEN [s1 EXCEPT !.first_event[key] =
                          Min2(get_ts(w.data[1]), most_recent_ts - s.rules.timeframe)]
                 ELSE [s1 EXCEPT !.first_event = dict_pop(@, key),
                                 !.occurrences = dict_pop(@, key),
                                 !.order = SelectSeq(@, LAMBDA k : k # key)]

\* the match condition of FlatlineRule.check_for_match
FlatlineRule_below(window, rules) == EventWindow_count(window) < rules.threshold

\* FlatlineRule.check_for_match(key, end=True)
FlatlineRule_check_for_match(s, key) ==
    IF Len(s.occurrences[key].data) = 0 THEN [s EXCEPT !.err = "IndexError"]
    ELSE LET w  == s.occurrences[key]
             most_recent_ts == get_ts(w.data[Len(w.data)])
             s1 == IF key \in DOMAIN s.first_event THEN s
                   ELSE [s EXCEPT !.first_event = @ @@ (key :> most_recent_ts)]
         IN  IF most_recent_ts - s1.first_event[key] < s.rules.timeframe THEN s1
             ELSE IF FlatlineRule_below(w, s.rules)
             THEN FlatlineRule_match(s1, key, most_recent_ts)
             ELSE s1

RECURSIVE FlatlineRule_add_data_loop(_, _)
\* mutant of FlatlineRule_add_data_loop: check_for_match evaluates after
\* every event
FlatlineRule_add_data_loop_EvalEach(s, data) ==
    IF Len(data) = 0 \/ s.err # "none" THEN s
    ELSE LET key == FrequencyRule_key(s.rules, data[1])
             s1  == FlatlineRule_setdefault(s, key)
             w   == EventWindow_append(s1.occurrences[key], <<data[1], 1>>).w
             s2  == [s1 EXCEPT !.occurrences[key] = w]
         IN  FlatlineRule_add_data_loop(
                 IF Len(data) > 1 THEN FlatlineRule_check_for_match(s2, key) ELSE s2,
                 Tail(data))

\* the for loop of the inherited add_data: check_for_match(key, end=False)
\* returns at once
FlatlineRule_add_data_loop(s, data) ==
    IF Len(data) = 0 THEN s
    ELSE LET key == FrequencyRule_key(s.rules, data[1])
             s1  == FlatlineRule_setdefault(s, key)
             w   == EventWindow_append(s1.occurrences[key], <<data[1], 1>>).w
         IN  FlatlineRule_add_data_loop([s1 EXCEPT !.occurrences[key] = w], Tail(data))

\* FrequencyRule.add_data as FlatlineRule inherits it: after the loop,
\* check_for_match(key, end=True) for the key of the last event
FlatlineRule_add_data(s, data) ==
    IF Len(data) = 0 THEN [s EXCEPT !.err = "UnboundLocalError"]
    ELSE LET s1  == FlatlineRule_add_data_loop(s, data)
             key == FrequencyRule_key(s.rules, data[Len(data)])
         IN  IF key \in DOMAIN s1.occurrences
             THEN FlatlineRule_check_for_match(s1, key)
             ELSE s1

RECURSIVE FlatlineRule_gc_loop(_, _, _)
\* the for loop of FlatlineRule.garbage_collect: a zero-count placeholder is
\* appended to the window of every key, then check_for_match(key)
FlatlineRule_gc_loop(s, keys, ts) ==
    IF Len(keys) = 0 \/ s.err # "none" THEN s
    ELSE LET key == keys[1]
             s1  == FlatlineRule_setdefault(s, key)
             w   == EventWindow_append(s1.occurrences[key],
                        <<[ts |-> ts, qk |-> NoKey, key |-> NoKey, count |-> 0], 0>>).w
             s2  == [s1 EXCEPT !.occurrences[key] = w,
                               !.first_event = IF key \in DOMAIN @ THEN @
                                               ELSE @ @@ (key :> ts)]
         IN  FlatlineRule_gc_loop(FlatlineRule_check_for_match(s2, key), Tail(keys), ts)

\* FlatlineRule.garbage_collect: the keys of occurrences, or 'all' when there
\* is none and the rule has no query_key
FlatlineRule_garbage_collect(s, ts) ==
    LET default == IF ~s.rules.query_key THEN <<"all">> ELSE <<>>
    IN  FlatlineRule_gc_loop(s, IF Len(s.order) # 0 THEN s.order ELSE default, ts)

\* FrequencyRule.add_count_data as FlatlineRule inherits it; d = [keys,
\* endtime, count, event] where keys is the set of keys the payload carries
FlatlineRule_add_count_data(s, d) ==
    IF "endtime" \notin d.keys \/ "count" \notin d.keys
    THEN [s EXCEPT !.err = "EAException"]
    ELSE LET doc == IF "event" \in d.keys THEN d.event
                    ELSE [ts |-> d.endtime, qk |-> NoKey, key |-> NoKey, count |-> 0]
             s1  == FlatlineRule_setdefault(s, "all")
             w   == EventWindow_append(s1.occurrences["all"], <<doc, d.count>>).w
         IN  FlatlineRule_check_for_match([s1 EXCEPT !.occurrences["all"] = w], "all")

RECURSIVE FlatlineRule_add_terms_data(_, _, _)
\* FrequencyRule.add_terms_data as FlatlineRule inherits it, for a payload of
\* one timestamp (nested_query_key unset); rules['query_key'] of an unset
\* option raises KeyError
FlatlineRule_add_terms_data(s, timestamp, buckets) ==
    IF Len(buckets) = 0 \/ s.err # "none" THEN s
    ELSE IF ~s.rules.query_key THEN [s EXCEPT !.err = "KeyError"]
    ELSE LET bucket == buckets[1]
             doc == [ts |-> timestamp, qk |-> bucket.key, key |-> NoKey, count |-> 0]
             s1  == FlatlineRule_setdefault(s, bucket.key)
             w   == EventWindow_append(s1.occurrences[bucket.key],
                                       <<doc, bucket.doc_count>>).w
         IN  FlatlineRule_add_terms_data(
                 FlatlineRule_check_for_match([s1 EXCEPT !.occurrences[bucket.key] = w],
                                              bucket.key),
                 timestamp, Tail(buckets))

\* FlatlineRule.__init__
FlatlineRule(rules) ==
    [rules |-> rules, occurrences |-> <<>>, order |-> <<>>, first_event |-> <<>>,
     matches |-> <<>>, err |-> "none", hist |-> <<>>, calls |-> 0]

(***************************************************************************)
(* SpecFlat: one FlatlineRule with threshold 5 or 1 and timeframe 60,      *)
(* with and without query_key and forget_keys, driven by add_data and      *)
(* garbage_collect.                                                        *)
(***************************************************************************)
FlMaxCalls == 3

FlTimes == {0, 30, 61}

FlRules ==
    {[timeframe |-> 60, threshold |-> th, query_key |-> q, forget_keys |-> f] :
        th \in {1, 5}, q \in BOOLEAN, f \in BOOLEAN}

FlEvents(rules) ==
    {[ts |-> t, qk |-> k, key |-> NoKey, count |-> 0] :
        t \in FlTimes, k \in IF rules.query_key THEN {"a", "b"} ELSE {NoKey}}

\* batches of add_data: one event, two events of different keys in time
\* order, or the same event twice
FlBatches(rules) ==
    {b \in SeqsUpTo(FlEvents(rules), 2) :
        /\ Len(b) >= 1
        /\ Len(b) = 2 => b[1].ts <= b[2].ts /\ b[1].qk # b[2].qk}
    \cup {<<e, e>> : e \in FlEvents(rules)}

\* payloads of add_count_data: complete ones, with and without a sample event,
\* and the two that lack a key
FlCountData ==
    {[keys |-> {"endtime", "count"}, endtime |-> t, count |-> c,
      event |-> [ts |-> t, qk |-> NoKey, key |-> NoKey, count |-> 0]] :
        t \in FlTimes, c \in {0, 2}}
    \cup {[keys |-> {"endtime", "count", "event"}, endtime |-> t, count |-> 1,
           event |-> [ts |-> t, qk |-> "a", key |-> NoKey, count |-> 0]] : t \in FlTimes}
    \cup {[keys |-> {k}, endtime |-> 0, count |-> 1,
           event |-> [ts |-> 0, qk |-> NoKey, key |-> NoKey, count |-> 0]] :
           k \in {"endtime", "count"}}

\* bucket lists of a terms aggregation
FlBuckets ==
    {<<[key |-> k, doc_count |-> c]>> : k \in {"a", "b"}, c \in {0, 2}}
    \cup {<<[key |-> "a", doc_count |-> 2], [key |-> "b", doc_count |-> 0]>>}

FlCall(op, data, ts) ==
    [fl EXCEPT !.err = "none", !.calls = @ + 1,
               !.hist = Append(@, [op |-> op, data |-> data, ts |-> ts])]

FlInit == \E rules \in FlRules : fl = FlatlineRule(rules)

FlAddData ==
    /\ fl.calls < FlMaxCalls
    /\ \E data \in FlBatches(fl.rules) \cup {<<>>} :
        fl' = FlatlineRule_add_data(FlCall("add_data", data, 0), data)
    /\ UNCHANGED <<ew, fr, sp, tw, nt, ch, ca, cr, rt, fm, ag, bf>>

FlGarbageCollect ==
    /\ fl.calls < FlMaxCalls
    /\ \E t \in FlTimes :
        fl' = FlatlineRule_garbage_collect(FlCall("garbage_collect", <<>>, t), t)
    /\ UNCHANGED <<ew, fr, sp, tw, nt, ch, ca, cr, rt, fm, ag, bf>>

FlAddCountData ==
    /\ fl.calls < FlMaxCalls
    /\ \E d \in FlCountData :
        fl' = FlatlineRule_add_count_data(FlCall("add_count_data", <<d>>, d.endtime), d)
    /\ UNCHANGED <<ew, fr, sp, tw, nt, ch, ca, cr, rt, fm, ag, bf>>

FlAddTermsData ==
    /\ fl.calls < FlMaxCalls
    /\ \E t \in FlTimes, buckets \in FlBuckets :
        fl' = FlatlineRule_add_terms_data(FlCall("add_terms_data", buckets, t), t, buckets)
    /\ UNCHANGED <<ew, fr, sp, tw, nt, ch, ca, cr, rt, fm, ag, bf>>

FlNext == FlAddData \/ FlAddCountData \/ FlAddTermsData \/ FlGarbageCollect

SpecFlatInit ==
    /\ FlInit /\ ew = NoObject /\ fr = NoObject /\ sp = NoObject
    /\ tw = NoObject /\ nt = NoObject /\ ch = NoObject
    /\ ca = NoObject /\ cr = NoObject /\ rt = NoObject /\ fm = NoObject /\ ag = NoObject /\ bf = NoObject

SpecFlat == SpecFlatInit /\ [][FlNext]_vars

\* the calls of the worked example: one event at t = 0, then garbage_collect(61),
\* on a rule with threshold 5, timeframe 60 and no query_key
FlExample ==
    /\ fl.rules.threshold = 5 /\ fl.rules.timeframe = 60 /\ ~fl.rules.query_key
    /\ fl.hist = <<[op |-> "add_data",
                    data |-> <<[ts |-> 0, qk |-> NoKey, key |-> NoKey, count |-> 0]>>,
                    ts |-> 0],
                   [op |-> "garbage_collect", data |-> <<>>, ts |-> 61]>>

\* C7: a FlatlineRule with threshold 5, timeframe 60 and no query_key, after
\* one event at t = 0 and garbage_collect(61), holds exactly one match and the
\* count of that match is 1.
C7_FlatlineExample ==
    FlExample => Len(fl.matches) = 1 /\ fl.matches[1].count = 1

\* what the calls of the example leave: no match, KeyError raised, and the
\* window counting 0 events
FlExampleObserved ==
    FlExample => /\ fl.matches = <<>>
                 /\ fl.err = "KeyError"
                 /\ EventWindow_count(fl.occurrences["all"]) = 0

\* the last call was garbage_collect(t) and it returned normally
FlLastGc(s, t) ==
    /\ Len(s.hist) > 0
    /\ s.hist[Len(s.hist)].op = "garbage_collect"
    /\ s.hist[Len(s.hist)].ts = t
    /\ s.err = "none"

\* C14: calling garbage_collect(now) a second time with the same now directly
\* after the first call leaves the entries and running count of every window
\* exactly as the first call left them (stated here for FlatlineRule).
C14_GcIdempotent ==
    [][\A t \in FlTimes :
          (FlLastGc(fl, t) /\ FlLastGc(fl', t) /\ Len(fl'.hist) = Len(fl.hist) + 1)
              => fl'.occurrences = fl.occurrences]_vars

\* what the second call does when neither call matches: every window ends
\* with two zero-count placeholders for the same instant
C14_SecondPlaceholder ==
    \E t \in FlTimes, k \in DOMAIN fl.occurrences :
        LET d == fl.occurrences[k].data
        IN  /\ FlLastGc(fl, t)
            /\ Len(fl.hist) = 2 /\ fl.hist[1].op = "garbage_collect" /\ fl.hist[1].ts = t
            /\ Len(d) = 2 /\ d[1] = d[2] /\ d[1][2] = 0

\* the placeholder entry garbage_collect(t) appends
FlPlaceholder(t) == <<[ts |-> t, qk |-> NoKey, key |-> NoKey, count |-> 0], 0>>

\* new is old with a placeholder for t added and the first n entries of old
\* evicted, or old itself when the placeholder was the entry evicted or was
\* never added
FlGcEvicts(old, new, t, n) ==
    LET kept == SubSeq(old.data, n + 1, Len(old.data))
    IN  /\ \/ new.data = kept /\ n = 0
           \/ \E i \in 1..Len(new.data) :
                 /\ new.data[i] = FlPlaceholder(t)
                 /\ SubSeq(new.data, 1, i - 1) \o SubSeq(new.data, i + 1, Len(new.data)) = kept
        /\ new.running_count = old.running_count - SumCounts(SubSeq(old.data, 1, n))

\* C16: in a FlatlineRule, after any interleaving of add_data, add_count_data,
\* add_terms_data with non-negative counts and garbage_collect, the
\* running_count of every window is >= 0, and garbage_collect lowers the
\* running_count of a window only by the counts of the entries that its
\* zero-count placeholder evicts.
C16_RunningCount ==
    [][/\ \A k \in DOMAIN fl'.occurrences : fl'.occurrences[k].running_count >= 0
       /\ \A t \in FlTimes :
             (Len(fl'.hist) = Len(fl.hist) + 1
              /\ fl'.hist[Len(fl'.hist)] = [op |-> "garbage_collect", data |-> <<>>, ts |-> t])
             => \A k \in DOMAIN fl.occurrences \cap DOMAIN fl'.occurrences :
                   \E n \in 0..Len(fl.occurrences[k].data) :
                       FlGcEvicts(fl.occurrences[k], fl'.occurrences[k], t, n)]_vars

\* C16 witness: garbage_collect(61) evicted the entries counting 2 that
\* add_terms_data and add_count_data had put in the windows of "a" and "all"
C16_Witness ==
    /\ Len(fl.hist) = 3
    /\ fl.hist[1] = [op |-> "add_terms_data", ts |-> 0,
                     data |-> <<[key |-> "a", doc_count |-> 2]>>]
    /\ fl.hist[2].op = "add_count_data" /\ fl.hist[2].ts = 0
    /\ fl.hist[2].data[1].count = 2 /\ fl.hist[2].data[1].keys = {"endtime", "count"}
    /\ fl.hist[3] = [op |-> "garbage_collect", data |-> <<>>, ts |-> 61]
    /\ DOMAIN fl.occurrences = {"a", "all"}
    /\ \A k \in {"a", "all"} :
          /\ fl.occurrences[k].running_count = 0
          /\ fl.occurrences[k].data = <<FlPlaceholder(61)>>

\* the evaluations check_for_match(key, end=True) of a call: the key and the
\* entries appended to its window since the call began, for the call recorded
\* as h on a rule in state s
FlEvaluations(s, h) ==
    CASE h.op = "add_data" ->
             IF Len(h.data) = 0 THEN {}
             ELSE LET key == FrequencyRule_key(s.rules, h.data[Len(h.data)])
                      mine == SelectSeq(h.data,
                                  LAMBDA e : FrequencyRule_key(s.rules, e) = key)
                  IN  {[key |-> key,
                        entries |-> [i \in 1..Len(mine) |-> <<mine[i], 1>>]]}
      [] h.op = "add_count_data" ->
             IF h.data[1].keys = {"endtime", "count"}
             THEN {[key |-> "all",
                    entries |-> <<<<[ts |-> h.ts, qk |-> NoKey, key |-> NoKey,
                                     count |-> 0], h.data[1].count>>>>]}
             ELSE IF "event" \in h.data[1].keys
             THEN {[key |-> "all",
                    entries |-> <<<<h.data[1].event, h.data[1].count>>>>]}
             ELSE {}
      [] h.op = "add_terms_data" ->
             IF ~s.rules.query_key THEN {}
             ELSE {[key |-> h.data[i].key,
                    entries |-> <<<<[ts |-> h.ts, qk |-> h.data[i].key, key |-> NoKey,
                                     count |-> 0], h.data[i].doc_count>>>>] :
                      i \in 1..Len(h.data)}
      [] h.op = "garbage_collect" ->
             {[key |-> k, entries |-> <<FlPlaceholder(h.ts)>>] :
                 k \in IF DOMAIN s.occurrences # {} THEN DOMAIN s.occurrences
                       ELSE IF s.rules.query_key THEN {} ELSE {"all"}}

\* the window of an evaluation at the moment of the evaluation
FlEvalWindow(s, ev) ==
    EventWindow_append_all(IF ev.key \in DOMAIN s.occurrences
                           THEN s.occurrences[ev.key]
                           ELSE EventWindow(s.rules.timeframe), ev.entries)

\* both conditions of the claim hold in an evaluation: the newest timestamp
\* is at least timeframe after first_event[key] (set by garbage_collect to its
\* ts, by check_for_match to the newest timestamp, when the key has none) and
\* the count is below threshold
FlBothHold(s, h, ev) ==
    LET w      == FlEvalWindow(s, ev)
        newest == get_ts(w.data[Len(w.data)])
        first  == IF ev.key \in DOMAIN s.first_event THEN s.first_event[ev.key]
                  ELSE IF h.op = "garbage_collect" THEN h.ts ELSE newest
    IN  newest - first >= s.rules.timeframe /\ w.running_count < s.rules.threshold

\* a call emitted one match for each of its evaluations in which both
\* conditions held, carrying the key and the count of the window, and no other
FlMatchesAsEvaluated(s, t) ==
    LET h     == t.hist[Len(t.hist)]
        due   == {ev \in FlEvaluations(s, h) : FlBothHold(s, h, ev)}
        added == SubSeq(t.matches, Len(s.matches) + 1, Len(t.matches))
    IN  /\ Len(added) = Cardinality(due)
        /\ \A ev \in due :
              \E i \in 1..Len(added) :
                  /\ added[i].key = ev.key
                  /\ added[i].count = FlEvalWindow(s, ev).running_count

\* C18: a FlatlineRule emits a match for key k only in an evaluation where
\* newest_ts(window[k]) - first_event[k] >= timeframe and window[k].count() <
\* threshold, and every evaluation of k (end of an add_data batch,
\* add_count_data, an add_terms_data bucket, garbage_collect) in which both
\* hold emits exactly one match, whose count is window[k].count() at that
\* moment and whose key is k.
C18_MatchIffFlat ==
    [][Len(fl'.hist) = Len(fl.hist) + 1 => FlMatchesAsEvaluated(fl, fl')]_vars

\* the same for rules with query_key only, where it holds
C18_WithQueryKey ==
    [][(Len(fl'.hist) = Len(fl.hist) + 1 /\ fl.rules.query_key)
          => FlMatchesAsEvaluated(fl, fl')]_vars

\* a rule without query_key reached an evaluation in which both conditions
\* held and raised KeyError instead of emitting the match
C18_Raised ==
    /\ ~fl.rules.query_key /\ fl.err = "KeyError" /\ fl.matches = <<>>
    /\ Len(fl.hist) = 2 /\ fl.hist[2].op = "add_count_data"

\* the evaluation of key k in the call recorded as h
FlEvaluationOf(s, h, k) == CHOOSE ev \in FlEvaluations(s, h) : ev.key = k

\* the matches the step from s to t added
FlAdded(s, t) == SubSeq(t.matches, Len(s.matches) + 1, Len(t.matches))

\* after a match for k: with forget_keys k is gone from first_event and
\* occurrences, otherwise its window is the one evaluated and first_event[k]
\* is min(oldest retained timestamp, newest timestamp - timeframe)
FlAfterMatch(s, t, k) ==
    LET w == FlEvalWindow(s, FlEvaluationOf(s, t.hist[Len(t.hist)], k))
    IN  IF s.rules.forget_keys
        THEN k \notin DOMAIN t.first_event /\ k \notin DOMAIN t.occurrences
        ELSE /\ k \in DOMAIN t.occurrences /\ t.occurrences[k] = w
             /\ k \in DOMAIN t.first_event
             /\ t.first_event[k] = Min2(get_ts(w.data[1]),
                                        get_ts(w.data[Len(w.data)]) - s.rules.timeframe)

\* a key that matched before, on a rule without forget_keys, matches again in
\* every evaluation that finds its count below threshold
FlAlertsAgain(s, t) ==
    \A ev \in FlEvaluations(s, t.hist[Len(t.hist)]) :
        (/\ ~s.rules.forget_keys
         /\ \E i \in 1..Len(s.matches) : s.matches[i].key = ev.key
         /\ FlEvalWindow(s, ev).running_count < s.rules.threshold)
            => \E i \in 1..Len(FlAdded(s, t)) : FlAdded(s, t)[i].key = ev.key

\* C26: on a FlatlineRule match for key k, if forget_keys is set k is removed
\* from both first_event and occurrences; otherwise k's window is kept and
\* first_event[k] becomes min(oldest retained entry timestamp, newest
\* timestamp - timeframe), so that every later evaluation of k with window
\* count < threshold emits a match again without waiting another timeframe.
C26_AfterMatch ==
    [][Len(fl'.hist) = Len(fl.hist) + 1 =>
          /\ \A i \in 1..Len(FlAdded(fl, fl')) :
                FlAfterMatch(fl, fl', FlAdded(fl, fl')[i].key)
          /\ FlAlertsAgain(fl, fl')]_vars

\* C26 witness: a rule without forget_keys matched key "a" at 61 and, the
\* window still below threshold, again at the next evaluation at the same
\* instant
C26_Witness ==
    /\ ~fl.rules.forget_keys /\ fl.rules.query_key
    /\ Len(fl.hist) = 3 /\ Len(fl.matches) = 2
    /\ fl.hist[2].ts = 61 /\ fl.hist[3].ts = 61
    /\ fl.matches[1].key = "a" /\ fl.matches[2].key = "a"
    /\ fl.first_event["a"] = 1

\* a rule with forget_keys matched key "a" and holds nothing of it
C26_WitnessForgotten ==
    /\ fl.rules.forget_keys /\ fl.rules.query_key
    /\ Len(fl.hist) = 2 /\ Len(fl.matches) = 1 /\ fl.matches[1].key = "a"
    /\ "a" \notin DOMAIN fl.occurrences /\ "a" \notin DOMAIN fl.first_event

\* C27: during FlatlineRule.add_data no match is evaluated between the events
\* of the batch; one evaluation happens after the last event and only for
\* the key of that event, so a call emits at most one match, never for
\* another key, and first_event of the other keys is as it was.
C27_OneEvaluation ==
    [][(/\ Len(fl'.hist) = Len(fl.hist) + 1
        /\ fl'.hist[Len(fl'.hist)].op = "add_data"
        /\ Len(fl'.hist[Len(fl'.hist)].data) > 0) =>
          LET data == fl'.hist[Len(fl'.hist)].data
              last == FrequencyRule_key(fl.rules, data[Len(data)])
              added == FlAdded(fl, fl')
          IN  /\ Len(added) <= 1
              /\ \A i \in 1..Len(added) : added[i].key = last
              /\ Len(added) = 0 => last \in DOMAIN fl'.first_event
              /\ fl.rules.query_key => FlMatchesAsEvaluated(fl, fl')
              /\ \A k \in (DOMAIN fl.first_event \cup DOMAIN fl'.first_event) \ {last} :
                    /\ k \in DOMAIN fl.first_event /\ k \in DOMAIN fl'.first_event
                    /\ fl'.first_event[k] = fl.first_event[k]]_vars

\* C27 witness: a batch of two events of key "a" at 61, each of which finds
\* the window below threshold and the timeframe elapsed, emitted one match
\* counting both
C27_Witness ==
    /\ Len(fl.hist) = 2 /\ fl.hist[2].op = "add_data"
    /\ Len(fl.hist[2].data) = 2
    /\ fl.hist[2].data[1] = fl.hist[2].data[2]
    /\ fl.hist[2].data[1].ts = 61 /\ fl.hist[2].data[1].qk = "a"
    /\ fl.rules.threshold = 5
    /\ Len(fl.matches) = 1 /\ fl.matches[1].key = "a" /\ fl.matches[1].count = 2

\* a batch whose first event belongs to a key that would match and whose
\* last event belongs to another key emitted nothing for the first key
C27_WitnessOtherKey ==
    /\ Len(fl.hist) = 3 /\ fl.hist[3].op = "add_data"
    /\ Len(fl.hist[3].data) = 2
    /\ fl.hist[3].data[1].qk = "a" /\ fl.hist[3].data[2].qk = "b"
    /\ fl.hist[3].data[1].ts = 61
    /\ fl.hist[1].op = "add_data" /\ fl.hist[1].data[1].qk = "a" /\ fl.hist[1].ts = 0
    /\ Len(fl.hist[1].data) = 1 /\ fl.hist[1].data[1].ts = 0
    /\ fl.hist[2].op = "add_terms_data" /\ fl.hist[2].data[1].key = "b"
    /\ fl.matches = <<>>
    /\ fl.first_event["a"] = 0

\* the same for a FlatlineRule, whose garbage_collect appends placeholders:
\* every window of occurrences has an entry
C38_Flatline ==
    \A k \in DOMAIN fl.occurrences : Len(fl.occurrences[k].data) >= 1

\* a FlatlineRule that got an event at 61 and then a late event of the same
\* key at 0, which the append evicts at once: the window holds the event at
\* 61 alone
C38_FlatlineLate ==
    /\ Len(fl.hist) = 2
    /\ fl.hist[1].op = "add_data" /\ Len(fl.hist[1].data) = 1
    /\ fl.hist[2].op = "add_data" /\ Len(fl.hist[2].data) = 1
    /\ fl.hist[1].data[1].ts = 61 /\ fl.hist[2].data[1].ts = 0
    /\ fl.hist[1].data[1].qk = fl.hist[2].data[1].qk
    /\ LET k == FrequencyRule_key(fl.rules, fl.hist[2].data[1])
       IN  /\ k \in DOMAIN fl.occurrences
           /\ Len(fl.occurrences[k].data) = 1
           /\ get_ts(fl.occurrences[k].data[1]) = 61

(***************************************************************************)
(* ChangeRule (ruletypes.py 153-203) and CompareRule.add_data (114-118).   *)
(* change_map and occurrence_time are attributes of the class, so every    *)
(* instance reads and writes the same two dictionaries; occurrences and    *)
(* matches belong to the instance.                                         *)
(* ch = [change_map, occurrence_time, inst, last, calls]; inst[i] =        *)
(* [rules, occurrences, matches, err]; rules.timeframe is NoTimeframe when *)
(* the option is not set; last records the last add_data call and, in      *)
(* after_skip, whether the call before it was an event of the same         *)
(* instance and key, at time 2 or later, that ignore_null skipped, and in  *)
(* own the time of the last event each instance with timeframe recorded    *)
(* for each key.                                                           *)
(***************************************************************************)
\* the values of a compared field are strings; these stand for the empty
\* string and the Python values None, 0, [] and False
Null == ""

PyNone == "None"

PyZero == "0"

PyEmptyList == "[]"

PyFalse == "False"

\* isinstance(val, bool)
is_bool(val) == val \in {"True", PyFalse}

\* not val
falsy(val) == val \in {Null, PyNone, PyZero, PyEmptyList, PyFalse}

\* rules without the timeframe option
NoTimeframe == -1

\* mutant of ChangeRule_ignored: only a falsy first value counts
ChangeRule_ignored_FirstOnly(rules, values) ==
    rules.ignore_null /\ ~is_bool(values[1]) /\ falsy(values[1])

\* the ignore_null test of compare: ignore_null is set and some value is
\* falsy and not a bool
ChangeRule_ignored(rules, values) ==
    rules.ignore_null /\ \E idx \in 1..Len(values) :
                             ~is_bool(values[idx]) /\ falsy(values[idx])

\* mutant of ChangeRule_set_change: the first change recorded for a key stays
ChangeRule_set_change_KeepFirst(change_map, key, previous, values) ==
    IF key \in DOMAIN change_map THEN change_map
    ELSE change_map @@ (key :> <<previous, values>>)

\* self.change_map[key] = (self.occurrences[key], values)
ChangeRule_set_change(change_map, key, previous, values) ==
    [k \in DOMAIN change_map \cup {key} |->
        IF k = key THEN <<previous, values>> ELSE change_map[k]]

\* the enumerate loop of compare: some position of the recorded values
\* differs from the event's
ChangeRule_differs(previous, values) ==
    \E idx \in 1..Len(previous) : previous[idx] # values[idx]

\* ChangeRule.compare on (class attributes, instance i): r = [c, changed]
\* where c is ch after the call; rules['timeframe'] of a rule without the
\* option raises KeyError and leaves occurrences as they were
ChangeRule_compare(c, i, event) ==
    LET self   == c.inst[i]
        key    == event.qk
        values == event.values
        seen   == key \in DOMAIN self.occurrences
        differ == seen /\ ChangeRule_differs(self.occurrences[key], values)
        c1     == IF differ
                  THEN [c EXCEPT !.change_map =
                           ChangeRule_set_change(@, key, self.occurrences[key], values)]
                  ELSE c
        timed  == differ /\ key \in DOMAIN c.occurrence_time
        record(cc) ==
            [cc EXCEPT !.inst[i].occurrences =
                           [k \in DOMAIN @ \cup {key} |-> IF k = key THEN values ELSE @[k]],
                       !.occurrence_time =
                           IF self.rules.timeframe # NoTimeframe
                           THEN [k \in DOMAIN @ \cup {key} |-> IF k = key THEN event.ts ELSE @[k]]
                           ELSE @]
    IN  IF ChangeRule_ignored(self.rules, values) THEN [c |-> c, changed |-> FALSE]
        ELSE IF timed /\ self.rules.timeframe = NoTimeframe
        THEN [c |-> [c1 EXCEPT !.inst[i].err = "KeyError"], changed |-> FALSE]
        ELSE [c |-> record(c1),
              changed |-> IF timed
                          THEN event.ts - c.occurrence_time[key] <= self.rules.timeframe
                          ELSE differ]

\* ChangeRule.add_match: the event gets old_value and new_value from
\* change_map[key], then RuleType.add_match
ChangeRule_add_match(c, i, match) ==
    LET key   == match.qk
        extra == IF key \in DOMAIN c.change_map
                 THEN [match EXCEPT !.has_change = TRUE,
                                    !.old_value = c.change_map[key][1],
                                    !.new_value = c.change_map[key][2]]
                 ELSE match
    IN  [c EXCEPT !.inst[i].matches = RuleType_add_match(@, extra)]

RECURSIVE CompareRule_add_data(_, _, _)
\* CompareRule.add_data: every event compare accepts is added as a match; an
\* exception raised by compare ends the loop
CompareRule_add_data(c, i, data) ==
    IF Len(data) = 0 \/ c.inst[i].err # "none" THEN c
    ELSE LET r == ChangeRule_compare(c, i, data[1])
         IN  CompareRule_add_data(
                 IF r.changed THEN ChangeRule_add_match(r.c, i, data[1]) ELSE r.c,
                 i, Tail(data))

\* ChangeRule.__init__ of one instance
ChangeRule(rules) == [rules |-> rules, occurrences |-> <<>>, matches |-> <<>>, err |-> "none"]

(***************************************************************************)
(* SpecChange: two ChangeRule instances of one process, with               *)
(* compound_compare_key of two fields and query_key "user"; each may or    *)
(* may not set timeframe (2 when set).  Each step is one add_data call of  *)
(* one event on one of them.                                               *)
(***************************************************************************)
ChMaxCalls == 3

ChTimes == {0, 2, 3}

ChKeys == {"u", "v"}

ChValues == {<<"ok", "a">>, <<"err", "a">>, <<"err", "b">>, <<Null, "a">>}

\* values with None, 0, [] and False, sent for key u at time 2
ChFalsyValues == {<<"ok", PyNone>>, <<PyZero, PyEmptyList>>, <<PyFalse, "a">>}

ChEvents ==
    {[ts |-> t, qk |-> k, values |-> v, has_change |-> FALSE,
      old_value |-> <<>>, new_value |-> <<>>] : t \in ChTimes, k \in ChKeys, v \in ChValues}
    \cup {[ts |-> 2, qk |-> "u", values |-> v, has_change |-> FALSE,
            old_value |-> <<>>, new_value |-> <<>>] : v \in ChFalsyValues}

ChConfigs ==
    {<<[timeframe |-> a, ignore_null |-> n], [timeframe |-> b, ignore_null |-> n]>> :
        a \in {2}, b \in {2, NoTimeframe}, n \in BOOLEAN}
    \cup {<<[timeframe |-> NoTimeframe, ignore_null |-> TRUE],
            [timeframe |-> NoTimeframe, ignore_null |-> TRUE]>>}

ChInit ==
    \E cfg \in ChConfigs :
        ch = [change_map |-> <<>>, occurrence_time |-> <<>>,
              inst |-> [i \in 1..2 |-> ChangeRule(cfg[i])],
              last |-> [op |-> "init"], calls |-> 0]

\* what occurrence_time would hold if it were an attribute of the instance:
\* for each instance with timeframe and each key, the timestamp of the last
\* event of the key that the instance recorded
ChOwn == IF ch.last.op = "init" THEN [j \in 1..2 |-> <<>>] ELSE ch.last.own

ChAddData ==
    /\ ch.calls < ChMaxCalls
    /\ \E i \in 1..2, event \in ChEvents :
        LET c0 == [ch EXCEPT !.calls = @ + 1, !.inst[i].err = "none"]
            c1 == CompareRule_add_data(c0, i, <<event>>)
        IN  ch' = [c1 EXCEPT !.last =
                      [op |-> "add_data", i |-> i, event |-> event,
                       seen |-> event.qk \in DOMAIN ch.inst[i].occurrences,
                       previous |-> IF event.qk \in DOMAIN ch.inst[i].occurrences
                                    THEN ch.inst[i].occurrences[event.qk] ELSE <<>>,
                       timed |-> event.qk \in DOMAIN ch.occurrence_time,
                       previous_time |-> IF event.qk \in DOMAIN ch.occurrence_time
                                         THEN ch.occurrence_time[event.qk] ELSE 0,
                       before |-> Len(ch.inst[i].matches),
                       own_before |-> ChOwn[i],
                       own |-> IF ~ChangeRule_ignored(ch.inst[i].rules, event.values)
                                  /\ ch.inst[i].rules.timeframe # NoTimeframe
                               THEN [ChOwn EXCEPT ![i] =
                                        [k \in DOMAIN @ \cup {event.qk} |->
                                            IF k = event.qk THEN event.ts ELSE @[k]]]
                               ELSE ChOwn,
                       after_skip |->
                           /\ ch.last.op = "add_data" /\ ch.last.i = i
                           /\ ch.last.event.qk = event.qk
                           /\ ch.last.event.ts >= 2
                           /\ ChangeRule_ignored(ch.inst[i].rules, ch.last.event.values)]]

ChNext == ChAddData /\ UNCHANGED <<ew, fr, sp, tw, nt, fl, ca, cr, rt, fm, ag, bf>>

SpecChangeInit ==
    /\ ChInit /\ ew = NoObject /\ fr = NoObject /\ sp = NoObject
    /\ tw = NoObject /\ nt = NoObject /\ fl = NoObject
    /\ ca = NoObject /\ cr = NoObject /\ rt = NoObject /\ fm = NoObject /\ ag = NoObject /\ bf = NoObject

SpecChange == SpecChangeInit /\ [][ChNext]_vars

\* the instance of the last call, and whether that call emitted a match
ChSelf == ch.inst[ch.last.i]

ChMatched == Len(ChSelf.matches) > ch.last.before

\* the last event was not skipped by ignore_null
ChProcessed ==
    ch.last.op = "add_data" /\ ~ChangeRule_ignored(ChSelf.rules, ch.last.event.values)

\* C9: an event of key k that ignore_null does not skip matches iff k was seen
\* before, some value differs positionally from the values the previous event
\* of k recorded and, when timeframe is configured, event.ts -
\* occurrence_time[k] <= timeframe (so the first event of k never matches);
\* afterwards occurrences[k] holds the event's values and, when timeframe is
\* configured, occurrence_time[k] its timestamp.
C9_MatchIffChanged ==
    ChProcessed =>
        LET e == ch.last.event
        IN  /\ ChMatched <=>
                  /\ ch.last.seen
                  /\ \E idx \in 1..Len(e.values) : ch.last.previous[idx] # e.values[idx]
                  /\ ChSelf.rules.timeframe # NoTimeframe =>
                        e.ts - ch.last.previous_time <= ChSelf.rules.timeframe
            /\ e.qk \in DOMAIN ChSelf.occurrences
            /\ ChSelf.occurrences[e.qk] = e.values
            /\ ChSelf.rules.timeframe # NoTimeframe =>
                  /\ e.qk \in DOMAIN ch.occurrence_time
                  /\ ch.occurrence_time[e.qk] = e.ts

C11_SharedNothing ==
    [][\A i \in 1..2 :
          (ch'.last.op = "add_data" /\ ch'.last.i = i) =>
              /\ ch'.inst[3 - i] = ch.inst[3 - i]
              /\ ch'.occurrence_time = ch.occurrence_time
              /\ ch'.change_map = ch.change_map]_vars

\* a call on one instance changed the outcome of the other's next call: the
\* instance without timeframe raised KeyError on a key whose occurrence_time
\* only the other instance wrote
ChInterference ==
    /\ ch.last.op = "add_data"
    /\ ChSelf.rules.timeframe = NoTimeframe
    /\ ChSelf.err = "KeyError"

\* C29: in a ChangeRule with ignore_null set, an event in which some compared
\* value is falsy and not a boolean produces no match and leaves the
\* instance's occurrences, occurrence_time and change_map as they were.
C29_NullIgnored ==
    [][\A i \in 1..2 :
          (/\ ch'.last.op = "add_data" /\ ch'.last.i = i
           /\ ch.inst[i].rules.ignore_null
           /\ \E idx \in 1..2 :
                 ch'.last.event.values[idx] \in {Null, PyNone, PyZero, PyEmptyList}) =>
              /\ ch'.inst[i].matches = ch.inst[i].matches
              /\ ch'.inst[i].occurrences = ch.inst[i].occurrences
              /\ ch'.inst[i].err = "none"
              /\ ch'.occurrence_time = ch.occurrence_time
              /\ ch'.change_map = ch.change_map]_vars

\* C29 witness: after ("ok", "a") of key u at time 0 an event of u at time 2
\* was skipped, and the next event of u, ("err", "a"), matched with old_value
\* ("ok", "a") and was timed against the event at 0
C29_Witness ==
    /\ ch.last.op = "add_data" /\ ChMatched /\ ch.calls = 3
    /\ ChSelf.rules.ignore_null
    /\ ch.last.event.values = <<"err", "a">> /\ ch.last.event.qk = "u"
    /\ ch.last.event.ts = 2
    /\ ch.last.after_skip
    /\ ch.last.previous = <<"ok", "a">>
    /\ ch.last.timed /\ ch.last.previous_time = 0
    /\ ChSelf.matches[Len(ChSelf.matches)].old_value = <<"ok", "a">>

\* an event whose first value is False is a boolean and is not skipped: it
\* is recorded as the values of its key
C29_WitnessFalse ==
    /\ ch.last.op = "add_data" /\ ChSelf.rules.ignore_null
    /\ ch.last.event.values = <<PyFalse, "a">>
    /\ ChSelf.occurrences[ch.last.event.qk] = <<PyFalse, "a">>
    /\ ChMatched

\* the last event changed the value of its key on an instance with timeframe,
\* and prev was the time of the key's previous event
ChLateChange(prev) ==
    /\ ChProcessed /\ ChSelf.err = "none"
    /\ ChSelf.rules.timeframe # NoTimeframe
    /\ ch.last.seen
    /\ ChangeRule_differs(ch.last.previous, ch.last.event.values)
    /\ ch.last.event.ts - prev > ChSelf.rules.timeframe

\* no match was emitted and the event's values are the recorded values of
\* its key
ChSilentlyRecorded ==
    /\ ~ChMatched
    /\ ch.last.event.qk \in DOMAIN ChSelf.occurrences
    /\ ChSelf.occurrences[ch.last.event.qk] = ch.last.event.values

\* C33: in a ChangeRule with timeframe configured, when the value of key k
\* changes in an event that arrives more than timeframe after the previous
\* event the rule recorded for k, no match is emitted and the new value
\* becomes k's recorded value.
C33_LateChangeSilent ==
    ch.calls >= 1 =>
        \A prev \in 0..3 :
            (/\ ch.last.op = "add_data"
             /\ ch.last.event.qk \in DOMAIN ch.last.own_before
             /\ ch.last.own_before[ch.last.event.qk] = prev
             /\ ChLateChange(prev)) => ChSilentlyRecorded

\* the same with the time the class's occurrence_time holds for k taken as
\* the time of k's previous event
C33_ByOccurrenceTime ==
    (ch.calls >= 1 /\ ch.last.op = "add_data" /\ ch.last.timed
     /\ ChLateChange(ch.last.previous_time)) => ChSilentlyRecorded

\* a change of u from ("ok", "a") at 0 to ("err", "a") at 3 was recorded
\* without a match
C33_Observed ==
    /\ ch.calls = 2 /\ ch.last.op = "add_data" /\ ch.last.timed
    /\ ChLateChange(ch.last.previous_time)
    /\ ch.last.previous = <<"ok", "a">> /\ ch.last.previous_time = 0
    /\ ch.last.event.values = <<"err", "a">> /\ ch.last.event.ts = 3
    /\ ChSilentlyRecorded

\* an instance recorded u at 0, the other instance recorded u at 2, and the
\* first instance's event of u at 3, a change more than timeframe after its
\* own previous event, matched
C33_OtherInstanceTime ==
    /\ ch.calls = 3 /\ ch.last.op = "add_data"
    /\ ch.last.event.qk \in DOMAIN ch.last.own_before
    /\ ch.last.own_before[ch.last.event.qk] = 0
    /\ ch.last.previous_time = 2
    /\ ch.last.event.ts = 3
    /\ ChLateChange(0)
    /\ ChMatched

(***************************************************************************)
(* CardinalityRule (ruletypes.py 1218-1275)                                *)
(* ca = [rules, cardinality_cache, order, first_event, matches, err, log,  *)
(* calls, op]; cardinality_cache[key] maps a value to the timestamp of its *)
(* last event; order lists the keys of cardinality_cache in insertion      *)
(* order; rules.max_cardinality and rules.min_cardinality are NoLimit when *)
(* the option is not set; log has one record per event handled, or one for *)
(* a garbage_collect call.                                                 *)
(***************************************************************************)
\* rules.get('max_cardinality', float('inf')) / rules.get('min_cardinality',
\* float('-inf')) of an option that is not set
NoLimit == -1

\* the key an event is filed under
CardinalityRule_key(rules, event) == IF rules.query_key THEN event.qk ELSE "all"

\* mutant of CardinalityRule_crossed: >= for > on max_cardinality
CardinalityRule_crossed_Inclusive(rules, n, timeframe_elapsed) ==
    \/ rules.max_cardinality # NoLimit /\ n >= rules.max_cardinality
    \/ rules.min_cardinality # NoLimit /\ n < rules.min_cardinality /\ timeframe_elapsed

\* the condition of check_for_match on the size n of the key's cache
CardinalityRule_crossed(rules, n, timeframe_elapsed) ==
    \/ rules.max_cardinality # NoLimit /\ n > rules.max_cardinality
    \/ rules.min_cardinality # NoLimit /\ n < rules.min_cardinality /\ timeframe_elapsed

\* time_elapsed > timeframe, with first_event.get(key, event ts)
CardinalityRule_timeframe_elapsed(s, key, event) ==
    LET first == IF key \in DOMAIN s.first_event THEN s.first_event[key] ELSE event.ts
    IN  event.ts - first > s.rules.timeframe

\* check_for_match(key, event, gc=False): on a match first_event[key] is
\* popped and the event added
CardinalityRule_check_no_gc(s, key, event) ==
    IF CardinalityRule_crossed(s.rules, Cardinality(DOMAIN s.cardinality_cache[key]),
                               CardinalityRule_timeframe_elapsed(s, key, event))
    THEN [s EXCEPT !.first_event = dict_pop(@, key),
                   !.matches = RuleType_add_match(@, event)]
    ELSE s

RECURSIVE CardinalityRule_gc_loop(_, _, _)
\* the for loop of garbage_collect over the keys of the cache: the terms last
\* seen more than timeframe before timestamp are popped; with min_cardinality
\* set a placeholder event of the key is checked
CardinalityRule_gc_loop(s, keys, timestamp) ==
    IF Len(keys) = 0 THEN s
    ELSE LET qk    == keys[1]
             terms == s.cardinality_cache[qk]
             kept  == {term \in DOMAIN terms : ~(timestamp - terms[term] > s.rules.timeframe)}
             s1    == [s EXCEPT !.cardinality_cache[qk] = [term \in kept |-> terms[term]]]
             event == [ts |-> timestamp,
                       qk |-> IF s.rules.query_key THEN qk ELSE NoKey,
                       value |-> NoKey, placeholder |-> TRUE]
         IN  CardinalityRule_gc_loop(
                 IF s.rules.min_cardinality # NoLimit
                 THEN CardinalityRule_check_no_gc(s1, qk, event)
                 ELSE s1,
                 Tail(keys), timestamp)

\* CardinalityRule.garbage_collect
CardinalityRule_garbage_collect(s, timestamp) ==
    CardinalityRule_gc_loop(s, s.order, timestamp)

\* check_for_match(key, event): when the condition holds the cache is
\* garbage-collected at the event's timestamp and the condition checked again
CardinalityRule_check_for_match(s, key, event) ==
    IF CardinalityRule_crossed(s.rules, Cardinality(DOMAIN s.cardinality_cache[key]),
                               CardinalityRule_timeframe_elapsed(s, key, event))
    THEN CardinalityRule_check_no_gc(CardinalityRule_garbage_collect(s, event.ts), key, event)
    ELSE s

\* the body of the for loop of add_data for one event
CardinalityRule_step(s, event) ==
    LET key == CardinalityRule_key(s.rules, event)
        s1  == IF key \in DOMAIN s.cardinality_cache THEN s
               ELSE [s EXCEPT !.cardinality_cache = @ @@ (key :> <<>>),
                              !.order = Append(@, key)]
        s2  == IF key \in DOMAIN s1.first_event THEN s1
               ELSE [s1 EXCEPT !.first_event = @ @@ (key :> event.ts)]
        c   == s2.cardinality_cache[key]
        s3  == [s2 EXCEPT !.cardinality_cache[key] =
                   [v \in DOMAIN c \cup {event.value} |->
                       IF v = event.value THEN event.ts ELSE c[v]]]
        s4  == IF event.value # NoKey THEN CardinalityRule_check_for_match(s3, key, event)
               ELSE s2
    IN  [s4 EXCEPT !.log = Append(@,
            [event |-> event, key |-> key, pre_cache |-> s.cardinality_cache,
             pre_first |-> s.first_event, before |-> Len(s.matches),
             after |-> Len(s4.matches)])]

RECURSIVE CardinalityRule_add_data(_, _)
\* CardinalityRule.add_data
CardinalityRule_add_data(s, data) ==
    IF Len(data) = 0 THEN s
    ELSE CardinalityRule_add_data(CardinalityRule_step(s, data[1]), Tail(data))

\* CardinalityRule.__init__
CardinalityRule(rules) ==
    [rules |-> rules, cardinality_cache |-> <<>>, order |-> <<>>, first_event |-> <<>>,
     matches |-> <<>>, err |-> "none", log |-> <<>>, calls |-> 0, op |-> "init"]

(***************************************************************************)
(* SpecCard: one CardinalityRule with timeframe 1, max_cardinality 1       *)
(* and/or min_cardinality 2, with and without query_key, driven by         *)
(* add_data and garbage_collect.                                           *)
(***************************************************************************)
CaMaxCalls == 3

CaTimes == {0, 1, 3}

CaRules ==
    {[timeframe |-> 1, max_cardinality |-> mx, min_cardinality |-> mn, query_key |-> q] :
        mx \in {1, NoLimit}, mn \in {2, NoLimit}, q \in BOOLEAN}
    \ {[timeframe |-> 1, max_cardinality |-> NoLimit, min_cardinality |-> NoLimit,
        query_key |-> q] : q \in BOOLEAN}

CaEvents(rules) ==
    {[ts |-> t, qk |-> k, value |-> v, placeholder |-> FALSE] :
        t \in CaTimes, v \in {"a", "b", NoKey},
        k \in IF rules.query_key THEN {"k1", "k2"} ELSE {NoKey}}

\* batches of add_data: one event, or the same key with two values at once
CaBatches(rules) ==
    {<<e>> : e \in CaEvents(rules)}
    \cup {<<e, [e EXCEPT !.value = "b"]>> : e \in {x \in CaEvents(rules) : x.value = "a"}}

CaCall == [ca EXCEPT !.err = "none", !.log = <<>>, !.calls = @ + 1]

CaInit == \E rules \in CaRules : ca = CardinalityRule(rules)

CaAddData ==
    /\ ca.calls < CaMaxCalls
    /\ \E data \in CaBatches(ca.rules) :
        ca' = [CardinalityRule_add_data(CaCall, data) EXCEPT !.op = "add_data"]
    /\ UNCHANGED <<ew, fr, sp, tw, nt, fl, ch, cr, rt, fm, ag, bf>>

CaGarbageCollect ==
    /\ ca.calls < CaMaxCalls
    /\ \E t \in CaTimes :
        LET s == CardinalityRule_garbage_collect(CaCall, t)
        IN  ca' = [s EXCEPT !.op = "garbage_collect",
                            !.log = <<[event |-> [ts |-> t, qk |-> NoKey, value |-> NoKey,
                                                  placeholder |-> TRUE],
                                       key |-> NoKey, pre_cache |-> ca.cardinality_cache,
                                       pre_first |-> ca.first_event,
                                       before |-> Len(ca.matches),
                                       after |-> Len(s.matches)]>>]
    /\ UNCHANGED <<ew, fr, sp, tw, nt, fl, ch, cr, rt, fm, ag, bf>>

CaNext == CaAddData \/ CaGarbageCollect

SpecCardInit ==
    /\ CaInit /\ ew = NoObject /\ fr = NoObject /\ sp = NoObject /\ tw = NoObject
    /\ nt = NoObject /\ fl = NoObject /\ ch = NoObject /\ cr = NoObject /\ rt = NoObject /\ fm = NoObject /\ ag = NoObject /\ bf = NoObject

SpecCard == SpecCardInit /\ [][CaNext]_vars

\* the values of key q that remain once the event of a step is recorded and
\* the values last seen more than timeframe before it are removed (reference
\* value, computed from the state before the step)
CaLiveValues(st, q) ==
    LET old  == IF q \in DOMAIN st.pre_cache THEN st.pre_cache[q] ELSE <<>>
        mine == q = st.key /\ st.event.value # NoKey
        last(v) == IF mine /\ v = st.event.value THEN st.event.ts ELSE old[v]
        all  == DOMAIN old \cup (IF mine THEN {st.event.value} ELSE {})
    IN  {v \in all : ~(st.event.ts - last(v) > ca.rules.timeframe)}

\* event.ts - first_event[q] > timeframe, first_event[q] being set by the
\* event when the key is new
CaElapsed(st, q) ==
    /\ q \in DOMAIN st.pre_first
    /\ st.event.ts - st.pre_first[q] > ca.rules.timeframe

\* the key of a match
CaMatchKey(m) == IF ca.rules.query_key THEN m.qk ELSE "all"

\* C12: a CardinalityRule emits a match for key k only if, once the values
\* last seen more than timeframe before the event are removed, the number of
\* values of k is > max_cardinality, or it is < min_cardinality and event.ts -
\* first_event[k] > timeframe.
C12_MatchOnlyIfCrossed ==
    \A i \in 1..Len(ca.log) :
        LET st == ca.log[i]
        IN  \A j \in (st.before + 1)..st.after :
                LET q == CaMatchKey(ca.matches[j])
                    n == Cardinality(CaLiveValues(st, q))
                IN  \/ ca.rules.max_cardinality # NoLimit /\ n > ca.rules.max_cardinality
                    \/ /\ ca.rules.min_cardinality # NoLimit
                       /\ n < ca.rules.min_cardinality
                       /\ CaElapsed(st, q)

\* C12 witness: with max_cardinality set, an event brought a second live
\* value of its key and matched
C12_Witness ==
    /\ ca.op = "add_data"
    /\ ca.rules.max_cardinality # NoLimit
    /\ \E i \in 1..Len(ca.log) :
          /\ ca.log[i].after > ca.log[i].before
          /\ ~ca.matches[ca.log[i].after].placeholder
          /\ Cardinality(CaLiveValues(ca.log[i], ca.log[i].key)) = 2

\* an event whose key held two values found one of them expired and did not
\* match
C12_WitnessExpired ==
    /\ ca.op = "add_data"
    /\ ca.rules.max_cardinality # NoLimit
    /\ \E i \in 1..Len(ca.log) :
          LET st == ca.log[i]
          IN  /\ st.after = st.before
              /\ st.key \in DOMAIN st.pre_cache
              /\ Cardinality(DOMAIN st.pre_cache[st.key] \cup {st.event.value}) = 2
              /\ st.event.value # NoKey
              /\ Cardinality(CaLiveValues(st, st.key)) = 1

(***************************************************************************)
(* BlacklistRule, WhitelistRule (ruletypes.py 121-150) and AnyRule         *)
(* (327-332).                                                              *)
(* cr = [cls, rules, matches, err, log, calls]; rules.list is the          *)
(* blacklist or whitelist after expand_entries; an event carries the value *)
(* of compare_key in term, NoKey when it has none; log has one record per  *)
(* event of the last call.                                                 *)
(***************************************************************************)
\* BlacklistRule.compare
BlacklistRule_compare(rules, event) == event.term \in rules.list

\* mutant of WhitelistRule_compare: a missing term never matches
WhitelistRule_compare_NullIgnored(rules, event) ==
    event.term # NoKey /\ event.term \notin rules.list

\* WhitelistRule.compare
WhitelistRule_compare(rules, event) ==
    IF event.term = NoKey THEN ~rules.ignore_null
    ELSE event.term \notin rules.list

\* self.compare(event) of the object's class; AnyRule.add_data adds every event
CompareRule_compare(s, event) ==
    CASE s.cls = "BlacklistRule" -> BlacklistRule_compare(s.rules, event)
      [] s.cls = "WhitelistRule" -> WhitelistRule_compare(s.rules, event)
      [] s.cls = "AnyRule" -> TRUE

RECURSIVE CompareRule_add_data_loop(_, _)
\* CompareRule.add_data / AnyRule.add_data: the matching events are added in
\* the order of the batch
CompareRule_add_data_loop(s, data) ==
    IF Len(data) = 0 THEN s
    ELSE LET s1 == IF CompareRule_compare(s, data[1])
                   THEN [s EXCEPT !.matches = RuleType_add_match(@, data[1])]
                   ELSE s
         IN  CompareRule_add_data_loop(
                 [s1 EXCEPT !.log = Append(@, [event |-> data[1],
                                               before |-> Len(s.matches),
                                               after |-> Len(s1.matches)])],
                 Tail(data))

\* the matches a step of the log added that belong to key q
CaAddedFor(st, q) ==
    {i \in (st.before + 1)..st.after : CaMatchKey(ca.matches[i]) = q}

\* C35: handling one ingested event in CardinalityRule.add_data appends at
\* most one match to the match buffer for that event's key, for every
\* configuration, including rules that set both max_cardinality and
\* min_cardinality.
C35_OneMatchPerEvent ==
    ca.op = "add_data" =>
        \A i \in 1..Len(ca.log) : Cardinality(CaAddedFor(ca.log[i], ca.log[i].key)) <= 1

\* the same for the rules that set only one of the two limits
C35_OneLimit ==
    (/\ ca.op = "add_data"
     /\ ca.rules.max_cardinality = NoLimit \/ ca.rules.min_cardinality = NoLimit) =>
        \A i \in 1..Len(ca.log) : Cardinality(CaAddedFor(ca.log[i], ca.log[i].key)) <= 1

\* a rule with both limits got a second value for its key and emitted two
\* matches for the one event: the placeholder of its garbage_collect and the
\* event
C35_TwoMatches ==
    /\ ca.op = "add_data" /\ Len(ca.log) = 1
    /\ ca.rules.max_cardinality # NoLimit /\ ca.rules.min_cardinality # NoLimit
    /\ ca.log[1].after = ca.log[1].before + 2
    /\ ca.matches[ca.log[1].before + 1].placeholder
    /\ ~ca.matches[ca.log[1].before + 2].placeholder
    /\ CaMatchKey(ca.matches[ca.log[1].before + 1]) = ca.log[1].key
    /\ CaMatchKey(ca.matches[ca.log[1].before + 2]) = ca.log[1].key

(***************************************************************************)
(* SpecCompare: one BlacklistRule, WhitelistRule or AnyRule with the list  *)
(* {"x"}, fed batches of up to two events.                                 *)
(***************************************************************************)
CrMaxCalls == 3

CrEvents == {[ts |-> t, term |-> v] : t \in 0..1, v \in {"x", "y", NoKey}}

CrConfigs ==
    {[cls |-> c, rules |-> [list |-> {"x"}, ignore_null |-> n]] :
        c \in {"BlacklistRule", "WhitelistRule", "AnyRule"}, n \in BOOLEAN}

CrInit ==
    \E cfg \in CrConfigs :
        cr = [cls |-> cfg.cls, rules |-> cfg.rules, matches |-> <<>>, err |-> "none",
              log |-> <<>>, calls |-> 0]

CrAddData ==
    /\ cr.calls < CrMaxCalls
    /\ \E data \in SeqsUpTo(CrEvents, 2) :
        cr' = CompareRule_add_data_loop(
                  [cr EXCEPT !.err = "none", !.log = <<>>, !.calls = @ + 1], data)

CrNext == CrAddData /\ UNCHANGED <<ew, fr, sp, tw, nt, fl, ch, ca, rt, fm, ag, bf>>

SpecCompareInit ==
    /\ CrInit /\ ew = NoObject /\ fr = NoObject /\ sp = NoObject /\ tw = NoObject
    /\ nt = NoObject /\ fl = NoObject /\ ch = NoObject /\ ca = NoObject /\ rt = NoObject /\ fm = NoObject /\ ag = NoObject /\ bf = NoObject

SpecCompare == SpecCompareInit /\ [][CrNext]_vars

\* whether an event matches, as a function of the event and the configuration
\* alone: Any matches everything, Blacklist a listed term, Whitelist an
\* unlisted term or, unless ignore_null, a missing one
CrShouldMatch(event) ==
    \/ cr.cls = "AnyRule"
    \/ cr.cls = "BlacklistRule" /\ event.term = "x"
    \/ cr.cls = "WhitelistRule" /\ event.term = "y"
    \/ cr.cls = "WhitelistRule" /\ event.term = NoKey /\ ~cr.rules.ignore_null

\* C13: Blacklist, Whitelist and Any detectors are stateless: every event of
\* every call appends exactly one match when the event matches under the
\* configuration and none otherwise, whatever was ingested before, so the
\* same matching event twice gives two matches.
C13_Stateless ==
    /\ \A i \in 1..Len(cr.log) :
          LET st == cr.log[i]
          IN  /\ st.after = st.before + (IF CrShouldMatch(st.event) THEN 1 ELSE 0)
              /\ CrShouldMatch(st.event) =>
                    cr.matches[st.after] = [st.event EXCEPT !.ts = dt_to_ts(@)]
    /\ Len(cr.log) > 0 => Len(cr.matches) = cr.log[Len(cr.log)].after

\* C13 witness: the same matching event twice in one batch, after an earlier
\* call, left two more matches
C13_Witness ==
    /\ cr.calls >= 2
    /\ Len(cr.log) = 2
    /\ cr.log[1].event = cr.log[2].event
    /\ CrShouldMatch(cr.log[1].event)
    /\ cr.cls # "AnyRule"
    /\ cr.log[2].after = cr.log[1].before + 2

\* a non-matching event ingested in three calls left no match
C13_WitnessNone ==
    /\ cr.calls = 3
    /\ cr.cls = "WhitelistRule"
    /\ Len(cr.log) > 0
    /\ cr.matches = <<>>

(***************************************************************************)
(* The ingest channels of RuleType (ruletypes.py 33-88) and their          *)
(* overrides.  A call of a channel runs the method of the first class, on  *)
(* the way from the object's class up to RuleType, whose body defines it;  *)
(* the methods of RuleType itself raise NotImplementedError.               *)
(* rt = [cls, op, err]: the class of the one detector, the last channel    *)
(* called on it that no class below RuleType defines, and what the call    *)
(* raised.                                                                 *)
(***************************************************************************)
Channels == {"add_data", "add_count_data", "add_terms_data", "add_aggregation_data"}

\* the base class named in each class statement
Class_base(cls) ==
    CASE cls \in {"BlacklistRule", "WhitelistRule", "ChangeRule"} -> "CompareRule"
      [] cls = "FlatlineRule" -> "FrequencyRule"
      [] OTHER -> "RuleType"

\* mutant of Class_defines: NewTermsRule.add_data is not commented out
Class_defines_NewTermsAddData(cls) ==
    CASE cls = "RuleType" -> Channels
      [] cls \in {"CompareRule", "AnyRule", "CardinalityRule"} -> {"add_data"}
      [] cls \in {"FrequencyRule", "SpikeRule"} ->
             {"add_data", "add_count_data", "add_terms_data"}
      [] cls = "NewTermsRule" -> {"add_data", "add_terms_data"}
      [] OTHER -> {}

\* the channel methods each class body defines
Class_defines(cls) ==
    CASE cls = "RuleType" -> Channels
      [] cls \in {"CompareRule", "AnyRule", "CardinalityRule"} -> {"add_data"}
      [] cls \in {"FrequencyRule", "SpikeRule"} ->
             {"add_data", "add_count_data", "add_terms_data"}
      [] cls = "NewTermsRule" -> {"add_terms_data"}
      [] OTHER -> {}

RECURSIVE Class_resolve(_, _)
\* the class whose method a call of channel on an object of class cls runs
Class_resolve(cls, channel) ==
    IF channel \in Class_defines(cls) THEN cls
    ELSE Class_resolve(Class_base(cls), channel)

(***************************************************************************)
(* SpecChannels: one detector of any class, given at most one call of the  *)
(* channels it implements and any number of calls of the others.           *)
(***************************************************************************)
RtClasses ==
    {"AnyRule", "BlacklistRule", "WhitelistRule", "ChangeRule", "CardinalityRule",
     "FrequencyRule", "FlatlineRule", "SpikeRule", "NewTermsRule"}

RtInit ==
    \E cls \in RtClasses :
        /\ rt = [cls |-> cls, op |-> "init", err |-> "none"]
        /\ IF cls \in {"AnyRule", "BlacklistRule", "WhitelistRule"}
           THEN CrInit /\ cr.cls = cls ELSE cr = NoObject
        /\ IF cls = "ChangeRule" THEN ChInit ELSE ch = NoObject
        /\ IF cls = "CardinalityRule" THEN CaInit ELSE ca = NoObject
        /\ IF cls = "FrequencyRule" THEN FrInit ELSE fr = NoObject
        /\ IF cls = "FlatlineRule" THEN FlInit ELSE fl = NoObject
        /\ IF cls = "SpikeRule" THEN SpInit ELSE sp = NoObject
        /\ IF cls = "NewTermsRule" THEN NtInit ELSE nt = NoObject

\* a call of a channel that resolves to RuleType: the method raises at once
RtUnsupported ==
    /\ \E channel \in Channels :
          /\ Class_resolve(rt.cls, channel) = "RuleType"
          /\ rt' = [rt EXCEPT !.op = channel, !.err = "NotImplementedError"]
    /\ UNCHANGED <<ew, fr, sp, tw, nt, fl, ch, ca, cr, fm, ag, bf>>

\* the first call of a channel or collector the detector implements
RtSupported ==
    \/ rt.cls \in {"AnyRule", "BlacklistRule", "WhitelistRule"} /\ cr.calls = 0 /\ CrNext
    \/ rt.cls = "ChangeRule" /\ ch.calls = 0 /\ ChNext
    \/ rt.cls = "CardinalityRule" /\ ca.calls = 0 /\ CaNext
    \/ rt.cls = "FrequencyRule" /\ fr.calls = 0 /\ FrNext
    \/ rt.cls = "FlatlineRule" /\ fl.calls = 0 /\ FlNext
    \/ rt.cls = "SpikeRule" /\ sp.calls = 0 /\ SpNext
    \/ rt.cls = "NewTermsRule" /\ nt.calls = 0 /\ NtNext

RtNext == RtUnsupported \/ RtSupported

SpecChannelsInit == RtInit /\ ew = NoObject /\ tw = NoObject /\ fm = NoObject /\ ag = NoObject /\ bf = NoObject

SpecChannels == SpecChannelsInit /\ [][RtNext]_vars

\* the channels each detector is said not to implement
RtNotImplemented(cls) ==
    CASE cls \in {"AnyRule", "BlacklistRule", "WhitelistRule", "ChangeRule",
                  "CardinalityRule"} ->
             {"add_count_data", "add_terms_data", "add_aggregation_data"}
      [] cls \in {"FrequencyRule", "FlatlineRule", "SpikeRule"} -> {"add_aggregation_data"}
      [] cls = "NewTermsRule" -> {"add_data"}

\* C15: calling add_count_data, add_terms_data or add_aggregation_data on Any,
\* Blacklist, Whitelist, Change or Cardinality, add_aggregation_data on
\* Frequency, Flatline or Spike, or add_data on NewTerms runs the method of
\* RuleType, which signals NotImplementedError, and the call leaves the
\* detector's windows, caches and match buffer as they were.
C15_NotImplemented ==
    [][/\ \A channel \in RtNotImplemented(rt.cls) :
              Class_resolve(rt.cls, channel) = "RuleType"
       /\ rt' # rt =>
              /\ rt'.err = "NotImplementedError"
              /\ rt'.op \in Channels
              /\ UNCHANGED <<fr, sp, nt, fl, ch, ca, cr, fm, ag, bf>>]_vars

\* C15 witness: add_data called on a NewTermsRule that holds the terms of an
\* earlier add_terms_data call
C15_Witness ==
    /\ rt.cls = "NewTermsRule" /\ rt.op = "add_data" /\ rt.err = "NotImplementedError"
    /\ nt.calls = 1 /\ nt.err = "none"

\* add_aggregation_data called on a FlatlineRule whose window holds an event
C15_WitnessFlatline ==
    /\ rt.cls = "FlatlineRule" /\ rt.op = "add_aggregation_data"
    /\ fl.calls = 1 /\ DOMAIN fl.occurrences # {}

(***************************************************************************)
(* SpecFind: SpikeRule.find_matches (ruletypes.py 668-687) called with     *)
(* reference and current values on rules of every spike_type, with and     *)
(* without thresholds and field_value.                                     *)
(* fm = [rules, ref, cur, result, err]                                     *)
(***************************************************************************)
FmMaxValue == 6

\* counts, means with denominator 2, and None
FmValues ==
    {Int2Val(n) : n \in 0..FmMaxValue} \cup {[num |-> n, den |-> 2] : n \in {1, 3, 5}}
    \cup {None}

FmRules ==
    {[spike_type |-> t, spike_height |-> h, threshold_cur |-> tc, threshold_ref |-> tr,
      field_value |-> f] :
        t \in {"up", "down", "both"}, h \in {2, 3}, tc \in {0, 2}, tr \in {0, 2},
        f \in BOOLEAN}

FmInit ==
    \E rules \in FmRules :
        fm = [rules |-> rules, ref |-> None, cur |-> None, result |-> FALSE,
              err |-> "init"]

FmFindMatches ==
    \E ref \in FmValues, cur \in FmValues :
        fm' = IF SpikeRule_find_matches_raises(fm.rules, ref, cur)
              THEN [fm EXCEPT !.ref = ref, !.cur = cur, !.result = FALSE,
                              !.err = "TypeError"]
              ELSE [fm EXCEPT !.ref = ref, !.cur = cur, !.err = "none",
                              !.result = SpikeRule_find_matches(fm.rules, ref, cur)]

FmNext == FmFindMatches /\ UNCHANGED <<ew, fr, sp, tw, nt, fl, ch, ca, cr, rt, ag, bf>>

SpecFindInit ==
    /\ FmInit /\ ew = NoObject /\ fr = NoObject /\ sp = NoObject /\ tw = NoObject
    /\ nt = NoObject /\ fl = NoObject /\ ch = NoObject /\ ca = NoObject
    /\ cr = NoObject /\ rt = NoObject /\ ag = NoObject /\ bf = NoObject

SpecFind == SpecFindInit /\ [][FmNext]_vars

\* x <= y for two values that are not None
ValLe(x, y) == ~ValLt(y, x)

\* x times the integer n, and x divided by the integer n > 0
ValTimes(x, n) == [num |-> x.num * n, den |-> x.den]
ValOver(x, n) == [num |-> x.num, den |-> x.den * n]

\* the result the claim gives for counts
FmExpected ==
    /\ ValLe(Int2Val(fm.rules.threshold_cur), fm.cur)
    /\ ValLe(Int2Val(fm.rules.threshold_ref), fm.ref)
    /\ \/ /\ fm.rules.spike_type \in {"both", "up"}
          /\ ValLe(ValTimes(fm.ref, fm.rules.spike_height), fm.cur)
       \/ /\ fm.rules.spike_type \in {"both", "down"}
          /\ ValLe(fm.cur, ValOver(fm.ref, fm.rules.spike_height))

\* C24: find_matches(ref, cur) when tracking counts is true iff cur >=
\* threshold_cur and ref >= threshold_ref and (spike_type is both or up and
\* cur >= ref*spike_height, or spike_type is both or down and cur <=
\* ref/spike_height); when tracking a field value it is false whenever ref or
\* cur is None or zero.
C24_FindMatches ==
    fm.err = "none" =>
        /\ ~fm.rules.field_value => (fm.result <=> FmExpected)
        /\ (fm.rules.field_value
            /\ (IsNone(fm.ref) \/ IsNone(fm.cur) \/ fm.ref.num = 0 \/ fm.cur.num = 0))
               => ~fm.result

\* C24 witness: cur is exactly ref*spike_height over the thresholds and the
\* call answered true for a spike up
C24_Witness ==
    /\ fm.err = "none" /\ ~fm.rules.field_value /\ fm.result
    /\ fm.rules.spike_type = "up" /\ fm.rules.spike_height = 3
    /\ fm.rules.threshold_cur = 2 /\ fm.rules.threshold_ref = 2
    /\ fm.ref = Int2Val(2) /\ fm.cur = Int2Val(6)

\* a field value of zero answered false although 0 <= ref/spike_height
C24_WitnessZero ==
    /\ fm.err = "none" /\ fm.rules.field_value /\ ~fm.result
    /\ fm.rules.spike_type = "down" /\ fm.cur = Int2Val(0) /\ fm.ref = Int2Val(4)

(***************************************************************************)
(* SpecSpikeGc: a SpikeRule with query_key (spike_type up, threshold_cur   *)
(* 1, timeframe 1, no alert_on_new_data) fed one terms bucket at a time    *)
(* and garbage collected, for long enough that a key runs out of counted   *)
(* events.                                                                 *)
(***************************************************************************)
SgMaxCalls == 5
SgMaxTime == 5

SgRules ==
    [timeframe |-> 1, spike_height |-> 2, spike_type |-> "up", query_key |-> TRUE,
     alert_on_new_data |-> FALSE, threshold_cur |-> 1, threshold_ref |-> 0,
     field_value |-> FALSE, metric_agg_type |-> "none", channel |-> "terms"]

SgInit == sp = SpikeRule(SgRules)

SgAddTermsData ==
    /\ sp.calls < SgMaxCalls
    /\ \E t \in 0..SgMaxTime, k \in SpKeys :
        sp' = [SpikeRule_add_terms_data(SpCall, sp.rules, t,
                                        <<[key |-> k, doc_count |-> 1]>>)
                  EXCEPT !.op = "add_terms_data"]
    /\ UNCHANGED <<ew, fr, tw, nt, fl, ch, ca, cr, rt, fm, ag, bf>>

SgGarbageCollect ==
    /\ sp.calls < SgMaxCalls
    /\ \E t \in 0..SgMaxTime :
        sp' = [SpikeRule_garbage_collect(SpCall, sp.rules, t)
                  EXCEPT !.op = "garbage_collect"]
    /\ UNCHANGED <<ew, fr, tw, nt, fl, ch, ca, cr, rt, fm, ag, bf>>

SgNext == SgAddTermsData \/ SgGarbageCollect

SpecSpikeGcInit ==
    /\ SgInit /\ ew = NoObject /\ fr = NoObject /\ tw = NoObject /\ nt = NoObject
    /\ fl = NoObject /\ ch = NoObject /\ ca = NoObject /\ cr = NoObject
    /\ rt = NoObject /\ fm = NoObject /\ ag = NoObject /\ bf = NoObject

SpecSpikeGc == SpecSpikeGcInit /\ [][SgNext]_vars

\* C25: garbage_collect(ts) feeds every known key a zero-count placeholder at
\* ts through handle_event, except that a key other than 'all' whose windows
\* both hold no counted event is forgotten entirely: after the call no window
\* and no first_event entry remains for it, so its next event starts a fresh
\* 2*timeframe warm-up.
C25_ForgottenEntirely ==
    (sp.op = "garbage_collect" /\ sp.err = "none") =>
        /\ DOMAIN sp.ref_windows = DOMAIN sp.cur_windows
        /\ \A k \in DOMAIN sp.first_event : k \in DOMAIN sp.cur_windows
        /\ \A i \in 1..Len(sp.log) :
              /\ sp.log[i].event.placeholder /\ sp.log[i].count = 0
              /\ sp.log[i].qk \in DOMAIN sp.cur_windows

\* what garbage_collect leaves of a forgotten key: first_event[k] of its
\* first event
C25_StaleFirstEvent ==
    /\ sp.op = "garbage_collect" /\ sp.err = "none"
    /\ "a" \notin DOMAIN sp.cur_windows
    /\ "a" \in DOMAIN sp.first_event

\* the first event of a forgotten key, 5 after the first event the key ever
\* had, is past the warm-up gate and matches at once
C25_NoFreshWarmUp ==
    /\ sp.calls = 5 /\ sp.op = "add_terms_data" /\ Len(sp.log) = 1
    /\ sp.log[1].qk = "a" /\ sp.log[1].event.ts = 5
    /\ "a" \in DOMAIN sp.log[1].first_event
    /\ sp.log[1].first_event["a"].ts = 0
    /\ sp.log[1].after = sp.log[1].before + 1
    /\ Len(sp.matches) = 1

(***************************************************************************)
(* BaseAggregationRule (ruletypes.py 1293-1343)                            *)
(* A payload is the dict of add_aggregation_data in iteration order: a     *)
(* sequence of <<timestamp, payload_data>>.  payload_data, term buckets    *)
(* and interval buckets are dicts: functions whose DOMAIN is the key set.  *)
(* The object is the sequence of check_matches invocations it received.    *)
(***************************************************************************)
\* util.ts_to_dt: parses the timestamp string back into the datetime
ts_to_dt(ts) == ts.rfc3339

\* check_matches as a subclass sees it: one invocation with its three arguments
BaseAggregationRule_check_matches(log, timestamp, query_key, aggregation_data) ==
    Append(log, [timestamp |-> timestamp, query_key |-> query_key,
                 aggregation_data |-> aggregation_data])

RECURSIVE BaseAggregationRule_unwrap_interval_buckets(_, _, _, _)
\* unwrap_interval_buckets: one check_matches per interval bucket, at the
\* bucket's key_as_string, under the query_key handed in
BaseAggregationRule_unwrap_interval_buckets(log, timestamp, query_key, interval_buckets) ==
    IF interval_buckets = <<>> THEN log
    ELSE LET interval_data == Head(interval_buckets)
         IN  BaseAggregationRule_unwrap_interval_buckets(
                 BaseAggregationRule_check_matches(
                     log, ts_to_dt(interval_data["key_as_string"]), query_key, interval_data),
                 timestamp, query_key, Tail(interval_buckets))

RECURSIVE BaseAggregationRule_unwrap_term_buckets(_, _, _)
\* unwrap_term_buckets: a term bucket with interval_aggs is unwrapped under
\* its key, any other is one check_matches at the payload timestamp
BaseAggregationRule_unwrap_term_buckets(log, timestamp, term_buckets) ==
    IF term_buckets = <<>> THEN log
    ELSE LET term_data == Head(term_buckets)
             after ==
                 IF "interval_aggs" \in DOMAIN term_data
                 THEN BaseAggregationRule_unwrap_interval_buckets(
                          log, timestamp, term_data["key"],
                          term_data["interval_aggs"]["buckets"])
                 ELSE BaseAggregationRule_check_matches(
                          log, timestamp, term_data["key"], term_data)
         IN  BaseAggregationRule_unwrap_term_buckets(after, timestamp, Tail(term_buckets))

\* the body of the loop of add_aggregation_data with bucket_aggs tested first
BaseAggregationRule_add_aggregation_data_item_BucketFirst(log, timestamp, payload_data) ==
    IF "bucket_aggs" \in DOMAIN payload_data
    THEN BaseAggregationRule_unwrap_term_buckets(
             log, timestamp, payload_data["bucket_aggs"]["buckets"])
    ELSE IF "interval_aggs" \in DOMAIN payload_data
    THEN BaseAggregationRule_unwrap_interval_buckets(
             log, timestamp, NoKey, payload_data["interval_aggs"]["buckets"])
    ELSE BaseAggregationRule_check_matches(log, timestamp, NoKey, payload_data)

\* the body of the loop of add_aggregation_data: if / elif / else
BaseAggregationRule_add_aggregation_data_item(log, timestamp, payload_data) ==
    IF "interval_aggs" \in DOMAIN payload_data
    THEN BaseAggregationRule_unwrap_interval_buckets(
             log, timestamp, NoKey, payload_data["interval_aggs"]["buckets"])
    ELSE IF "bucket_aggs" \in DOMAIN payload_data
    THEN BaseAggregationRule_unwrap_term_buckets(
             log, timestamp, payload_data["bucket_aggs"]["buckets"])
    ELSE BaseAggregationRule_check_matches(log, timestamp, NoKey, payload_data)

RECURSIVE BaseAggregationRule_add_aggregation_data(_, _)
\* add_aggregation_data: the items of the payload in iteration order
BaseAggregationRule_add_aggregation_data(log, payload) ==
    IF payload = <<>> THEN log
    ELSE BaseAggregationRule_add_aggregation_data(
             BaseAggregationRule_add_aggregation_data_item(
                 log, Head(payload)[1], Head(payload)[2]),
             Tail(payload))

(***************************************************************************)
(* SpecAgg: one BaseAggregationRule whose check_matches records its        *)
(* arguments, handed payloads with and without interval_aggs and           *)
(* bucket_aggs, term buckets with and without nested interval_aggs, empty  *)
(* bucket lists, and payloads of two timestamps.                           *)
(***************************************************************************)
\* the longest bucket list of a payload
AgMaxBuckets == 2

\* interval buckets carry their own time, apart from the payload timestamps
AgIntervalBuckets == {[key_as_string |-> dt_to_ts(t), doc_count |-> 1] : t \in 1..2}

AgPayloadTimestamps == {0, 5}

\* the interval bucket lists nested in a term bucket
AgNestedLists ==
    LET b(t) == [key_as_string |-> dt_to_ts(t), doc_count |-> 1]
    IN  {<<>>, <<b(1)>>, <<b(2)>>, <<b(2), b(1)>>}

AgTermBuckets ==
    {[key |-> k, doc_count |-> 1] : k \in {"a", "b"}}
    \cup {[key |-> k, interval_aggs |-> [buckets |-> l]] : k \in {"a", "b"}, l \in AgNestedLists}

AgPlain == [doc_count |-> 3]

AgPayloadData ==
    {AgPlain}
    \cup {[interval_aggs |-> [buckets |-> l]] : l \in SeqsUpTo(AgIntervalBuckets, AgMaxBuckets)}
    \cup {[bucket_aggs |-> [buckets |-> l]] : l \in SeqsUpTo(AgTermBuckets, AgMaxBuckets)}
    \cup {[interval_aggs |-> [buckets |-> l], bucket_aggs |-> [buckets |-> m]] :
              l \in SeqsUpTo(AgIntervalBuckets, AgMaxBuckets), m \in SeqsUpTo(AgTermBuckets, 1)}

\* the payload data of the payloads of two timestamps
AgPairData ==
    {d \in AgPayloadData :
        /\ "interval_aggs" \in DOMAIN d => Len(d["interval_aggs"]["buckets"]) <= 1
        /\ "bucket_aggs" \in DOMAIN d => Len(d["bucket_aggs"]["buckets"]) <= 1
        /\ DOMAIN d # {"interval_aggs", "bucket_aggs"}}

\* a dict has each timestamp once
AgPayloads ==
    {<<>>}
    \cup {<<<<t, d>>>> : t \in AgPayloadTimestamps, d \in AgPayloadData}
    \cup {<<<<t, d>>, <<u, e>>>> : <<t, u>> \in {<<0, 5>>, <<5, 0>>},
                                   <<d, e>> \in AgPairData \X AgPairData}

SpecAggInit ==
    /\ ag = [payload |-> <<>>, log |-> <<>>, op |-> "init"]
    /\ ew = NoObject /\ fr = NoObject /\ sp = NoObject /\ tw = NoObject
    /\ nt = NoObject /\ fl = NoObject /\ ch = NoObject /\ ca = NoObject
    /\ cr = NoObject /\ rt = NoObject /\ fm = NoObject /\ bf = NoObject

\* one add_aggregation_data call on a rule whose check_matches starts a new record
AgAddAggregationData ==
    /\ \E payload \in AgPayloads :
           ag' = [payload |-> payload,
                  log |-> BaseAggregationRule_add_aggregation_data(<<>>, payload),
                  op |-> "add_aggregation_data"]
    /\ UNCHANGED <<ew, fr, sp, tw, nt, fl, ch, ca, cr, rt, fm, bf>>

SpecAggNext == AgAddAggregationData

SpecAgg == SpecAggInit /\ [][SpecAggNext]_vars

RECURSIVE AgInvocations(_)
\* the number of check_matches invocations a list of term buckets is to cause
AgInvocations(term_buckets) ==
    IF term_buckets = <<>> THEN 0
    ELSE (IF "interval_aggs" \in DOMAIN Head(term_buckets)
          THEN Len(Head(term_buckets)["interval_aggs"]["buckets"]) ELSE 1)
         + AgInvocations(Tail(term_buckets))

\* position by position, the invocations one (timestamp, payload_data) is to cause
AgExpected(timestamp, payload_data) ==
    IF "interval_aggs" \in DOMAIN payload_data
    THEN LET buckets == payload_data["interval_aggs"]["buckets"]
         IN  [i \in 1..Len(buckets) |->
                 [timestamp |-> buckets[i]["key_as_string"].rfc3339, query_key |-> NoKey,
                  aggregation_data |-> buckets[i]]]
    ELSE IF "bucket_aggs" \in DOMAIN payload_data
    THEN LET terms == payload_data["bucket_aggs"]["buckets"]
             \* the term bucket the p-th invocation belongs to
             owner(p) == CHOOSE j \in 1..Len(terms) :
                             /\ AgInvocations(SubSeq(terms, 1, j - 1)) < p
                             /\ p <= AgInvocations(SubSeq(terms, 1, j))
         IN  [p \in 1..AgInvocations(terms) |->
                 LET j == owner(p)
                     k == p - AgInvocations(SubSeq(terms, 1, j - 1))
                 IN  IF "interval_aggs" \in DOMAIN terms[j]
                     THEN LET bucket == terms[j]["interval_aggs"]["buckets"][k]
                          IN  [timestamp |-> bucket["key_as_string"].rfc3339,
                               query_key |-> terms[j]["key"], aggregation_data |-> bucket]
                     ELSE [timestamp |-> timestamp, query_key |-> terms[j]["key"],
                           aggregation_data |-> terms[j]]]
    ELSE <<[timestamp |-> timestamp, query_key |-> NoKey, aggregation_data |-> payload_data]>>

\* C31: add_aggregation_data routes each (ts, payload) in a fixed order:
\* interval_aggs first (one check_matches per interval bucket, at the bucket's
\* own timestamp, query_key None), else bucket_aggs (one per term bucket under
\* the bucket's key, one per nested interval bucket when the term bucket has
\* interval_aggs), else exactly one check_matches(ts, None, payload); the
\* invocations follow the order of the payload and of its buckets
C31_RoutedInOrder ==
    ag.log = IF Len(ag.payload) = 0 THEN <<>>
             ELSE IF Len(ag.payload) = 1
             THEN AgExpected(ag.payload[1][1], ag.payload[1][2])
             ELSE AgExpected(ag.payload[1][1], ag.payload[1][2])
                  \o AgExpected(ag.payload[2][1], ag.payload[2][2])

\* a bucket_aggs payload of a plain term bucket after one with two nested
\* interval buckets: three invocations
C31_Witness ==
    /\ ag.op = "add_aggregation_data"
    /\ Len(ag.payload) = 1
    /\ DOMAIN ag.payload[1][2] = {"bucket_aggs"}
    /\ LET terms == ag.payload[1][2]["bucket_aggs"]["buckets"]
       IN  /\ Len(terms) = 2
           /\ "interval_aggs" \in DOMAIN terms[1]
           /\ Len(terms[1]["interval_aggs"]["buckets"]) = 2
           /\ "interval_aggs" \notin DOMAIN terms[2]
    /\ Len(ag.log) = 3
    /\ ag.log[3].timestamp = ag.payload[1][1]

\* a payload with both interval_aggs and bucket_aggs: only the interval
\* buckets are unwrapped
C31_IntervalWins ==
    /\ ag.op = "add_aggregation_data"
    /\ Len(ag.payload) = 1
    /\ DOMAIN ag.payload[1][2] = {"interval_aggs", "bucket_aggs"}
    /\ Len(ag.payload[1][2]["bucket_aggs"]["buckets"]) = 1
    /\ Len(ag.payload[1][2]["interval_aggs"]["buckets"]) = 2
    /\ Len(ag.log) = 2
    /\ \A i \in 1..2 : ag.log[i].query_key = NoKey

\* a term bucket whose interval_aggs has no bucket causes no invocation
C31_EmptyNested ==
    /\ ag.op = "add_aggregation_data"
    /\ Len(ag.payload) = 1
    /\ DOMAIN ag.payload[1][2] = {"bucket_aggs"}
    /\ Len(ag.payload[1][2]["bucket_aggs"]["buckets"]) = 1
    /\ ag.log = <<>>

(***************************************************************************)
(* SpecBackfill: NewTermsRule.get_all_terms (ruletypes.py 1006-1026) step  *)
(* by step.  bf = [fields, window_size, step, end, baseline, i, tmp_start, *)
(* pc, queries, term_windows, err]: i is the position of the for loop over *)
(* fields, pc the program point, queries the get_terms_data calls made so  *)
(* far.  The time unit is 30 minutes, so step is 2 and 7 days are 336.     *)
(***************************************************************************)
\* the largest terms_window_size of a rule
BfMaxWindow == 5

BfFields == {<<"f">>, <<"f", "g">>}

BfEnds == {0, 3}

\* what the backend holds: nothing, or the term "y" once in every chunk
BfBaselines == {"empty", "y"}

\* tmp_end = tmp_start + self.step, without the min
NewTermsRule_get_all_terms_tmp_end_NoMin(tmp_start, step, end) == tmp_start + step

\* tmp_end = min(tmp_start + self.step, end)
NewTermsRule_get_all_terms_tmp_end(tmp_start, step, end) == Min2(tmp_start + step, end)

\* get_terms_data: the answer of the backend to the query [starttime, endtime)
BfTermsData(baseline, starttime, endtime) ==
    IF baseline = "y" THEN [terms |-> <<"y">>, counts |-> <<1>>]
    ELSE [terms |-> <<>>, counts |-> <<>>]

\* get_new_term_query: term_windows.setdefault(field, TermsWindow(...))
BfSetDefault(term_windows, field, window_size) ==
    IF field \in DOMAIN term_windows THEN term_windows
    ELSE term_windows @@ (field :> TermsWindow(window_size, 2, 2))

\* __init__ up to the call of get_all_terms, and its first lines: window_size
\* is capped at 7 days, step is 1 hour, start = end - window_size
SpecBackfillInit ==
    /\ \E fields \in BfFields, size \in 1..BfMaxWindow, end \in BfEnds,
          baseline \in BfBaselines :
           bf = [fields |-> fields, window_size |-> Min2(size, 336), step |-> 2,
                 end |-> end, baseline |-> baseline, i |-> 0,
                 tmp_start |-> end - Min2(size, 336), pc |-> "for",
                 queries |-> <<>>, term_windows |-> <<>>, err |-> "none"]
    /\ ew = NoObject /\ fr = NoObject /\ sp = NoObject /\ tw = NoObject
    /\ nt = NoObject /\ fl = NoObject /\ ch = NoObject /\ ca = NoObject
    /\ cr = NoObject /\ rt = NoObject /\ fm = NoObject /\ ag = NoObject

\* for field in self.fields: tmp_start = start; after the last field the
\* method returns
BfFor ==
    /\ bf.pc = "for"
    /\ bf' = IF bf.i < Len(bf.fields)
             THEN [bf EXCEPT !.i = @ + 1, !.tmp_start = bf.end - bf.window_size,
                             !.pc = "while"]
             ELSE [bf EXCEPT !.pc = "done"]
    /\ UNCHANGED <<ew, fr, sp, tw, nt, fl, ch, ca, cr, rt, fm, ag>>

\* one pass of the body of while tmp_start < end: the query, the add at
\* tmp_end, tmp_start = tmp_end; an exception of add leaves the method
BfWhileBody ==
    /\ bf.pc = "while" /\ bf.tmp_start < bf.end
    /\ LET field   == bf.fields[bf.i]
           tmp_end == NewTermsRule_get_all_terms_tmp_end(bf.tmp_start, bf.step, bf.end)
           answer  == BfTermsData(bf.baseline, bf.tmp_start, tmp_end)
           windows == BfSetDefault(bf.term_windows, field, bf.window_size)
           window  == TermsWindow_add(windows[field], tmp_end, answer.terms, answer.counts)
       IN  bf' = [bf EXCEPT
                      !.queries = Append(@, [field |-> field, tmp_start |-> bf.tmp_start,
                                             tmp_end |-> tmp_end]),
                      !.term_windows = [windows EXCEPT ![field] = window],
                      !.err = window.err,
                      !.tmp_start = IF window.err = "none" THEN tmp_end ELSE @,
                      !.pc = IF window.err = "none" THEN "while" ELSE "raised"]
    /\ UNCHANGED <<ew, fr, sp, tw, nt, fl, ch, ca, cr, rt, fm, ag>>

\* the while condition is false: on to the next field
BfWhileExit ==
    /\ bf.pc = "while" /\ ~(bf.tmp_start < bf.end)
    /\ bf' = [bf EXCEPT !.pc = "for"]
    /\ UNCHANGED <<ew, fr, sp, tw, nt, fl, ch, ca, cr, rt, fm, ag>>

BfNext == BfFor \/ BfWhileBody \/ BfWhileExit

SpecBackfill == SpecBackfillInit /\ [][BfNext]_vars

\* the construction runs on one thread that nothing suspends: a step that
\* can be taken is taken
SpecBackfillFair == SpecBackfillInit /\ [][BfNext]_vars /\ WF_vars(BfNext)

\* the queries made for a field, in the order made
BfQueriesOf(field) == SelectSeq(bf.queries, LAMBDA q : q.field = field)

\* ceil(window_size / step)
BfCeil == (bf.window_size + bf.step - 1) \div bf.step

\* the chunks of a field are contiguous from end - window_size on, none is
\* empty or longer than step, and none reaches past end
BfContiguous(field) ==
    LET q == BfQueriesOf(field)
    IN  \A k \in 1..Len(q) :
            /\ q[k].tmp_start = IF k = 1 THEN bf.end - bf.window_size ELSE q[k - 1].tmp_end
            /\ q[k].tmp_start < q[k].tmp_end
            /\ q[k].tmp_end - q[k].tmp_start <= bf.step
            /\ q[k].tmp_end <= bf.end

\* the chunks of a field cover [end - window_size, end) with ceil(window_size
\* / step) queries and its TermsWindow holds one tuple per chunk, at the
\* chunk's end, in ascending order
BfCovered(field) ==
    LET q == BfQueriesOf(field)
    IN  /\ BfContiguous(field)
        /\ Len(q) = BfCeil
        /\ q[Len(q)].tmp_end = bf.end
        /\ field \in DOMAIN bf.term_windows
        /\ LET data == bf.term_windows[field].data
           IN  /\ Len(data) = Len(q)
               /\ \A k \in 1..Len(q) :
                      /\ data[k][1] = q[k].tmp_end
                      /\ data[k][2] = BfTermsData(bf.baseline, q[k].tmp_start, q[k].tmp_end).terms
               /\ \A k \in 1..Len(q) - 1 : data[k][1] < data[k + 1][1]

BfFinished ==
    /\ bf.pc = "done" /\ bf.err = "none" /\ bf.tmp_start = bf.end
    /\ \A j \in 1..Len(bf.fields) : BfCovered(bf.fields[j])
    /\ Len(bf.queries) = Len(bf.fields) * BfCeil

C32_Progress ==
    /\ bf.err = "none" /\ bf.pc # "raised"
    /\ \A j \in 1..Len(bf.fields) :
           LET field == bf.fields[j]
           IN  /\ j < bf.i => BfCovered(field)
               /\ j = bf.i => BfContiguous(field)
               /\ j = bf.i /\ bf.pc = "for" => BfCovered(field)
               /\ j > bf.i => BfQueriesOf(field) = <<>>

\* the stepwise loop ends with the windows the constructor of SpecNewTerms
\* computes
C32_SameAsConstructor ==
    bf.pc = "done" =>
        \A j \in 1..Len(bf.fields) :
            bf.term_windows[bf.fields[j]]
                = NewTermsRule_get_all_terms(
                      TermsWindow(bf.window_size, 2, 2), bf.end - bf.window_size, bf.end,
                      bf.step,
                      [t \in {q.tmp_end : q \in Range(bf.queries)} |->
                          BfTermsData(bf.baseline, t, t)])

(***************************************************************************)
(* SpecEW: one EventWindow driven by arbitrary append and clear calls      *)
(***************************************************************************)
EWMaxAppends == 3
EWMaxTime == 3
EWMaxCount == 2
EWTimeframes == {1, 2}

\* the entries a caller may append: counted events, and the zero-count
\* placeholders that SpikeRule.garbage_collect builds
EWInputs(id) ==
    {<<[ts |-> t, id |-> id, placeholder |-> FALSE], c>> :
        t \in 0..EWMaxTime, c \in 0..EWMaxCount}
    \cup {<<[ts |-> t, id |-> id, placeholder |-> TRUE], 0>> : t \in 0..EWMaxTime}

EWInit ==
    \E tf \in EWTimeframes :
        ew = [w |-> EventWindow(tf), removed |-> <<>>, n |-> 0,
              last |-> [op |-> "init"]]

EWAppend ==
    /\ ew.n < EWMaxAppends
    /\ \E entry \in EWInputs(ew.n + 1) :
        LET r == EventWindow_append(ew.w, entry)
        IN  ew' = [w |-> r.w, removed |-> ew.removed \o r.removed, n |-> ew.n + 1,
                   last |-> [op |-> "append", entry |-> entry, pre |-> ew.w,
                             removed |-> r.removed]]

EWClear ==
    /\ ew.last.op = "append"
    /\ ew' = [ew EXCEPT !.w = EventWindow_clear(@), !.last = [op |-> "clear"]]

EWNext ==
    \/ EWAppend /\ UNCHANGED <<fr, sp, tw, nt, fl, ch, ca, cr, rt, fm, ag, bf>>
    \/ EWClear /\ UNCHANGED <<fr, sp, tw, nt, fl, ch, ca, cr, rt, fm, ag, bf>>

SpecEWInit ==
    /\ EWInit /\ fr = NoObject /\ sp = NoObject /\ tw = NoObject
    /\ nt = NoObject /\ fl = NoObject /\ ch = NoObject
    /\ ca = NoObject /\ cr = NoObject /\ rt = NoObject /\ fm = NoObject /\ ag = NoObject /\ bf = NoObject

SpecEW == SpecEWInit /\ [][EWNext]_vars

\* C1: after every append to an EventWindow with timeframe > 0 (any counts >= 0,
\* any arrival order) duration() is strictly less than timeframe and count()
\* equals the sum of the counts of the retained entries.
C1_DurationAndCount ==
    ew.last.op = "append" =>
        /\ EventWindow_duration(ew.w) < ew.w.timeframe
        /\ EventWindow_count(ew.w) = SumCounts(ew.w.data)

\* C1 witness: an out-of-order append into a window that holds several counted
\* entries after an earlier append has evicted a counted entry.
C1_Witness ==
    /\ ew.last.op = "append"
    /\ Len(ew.w.data) >= 2
    /\ get_ts(ew.last.entry) < get_ts(ew.w.data[Len(ew.w.data)])
    /\ ew.last.entry \in Range(ew.w.data)
    /\ EventWindow_count(ew.w) >= 2
    /\ \E i \in 1..Len(ew.removed) : ew.removed[i][2] > 0

\* entries in ascending timestamp order, equal timestamps in the order of
\* their appends (id is the number of the append call)
EWOrdered(data) ==
    \A i, j \in 1..Len(data) :
        i < j => \/ get_ts(data[i]) < get_ts(data[j])
                 \/ get_ts(data[i]) = get_ts(data[j]) /\ data[i][1].id < data[j][1].id

\* C20: after any sequence of EventWindow.append calls in any arrival order
\* the retained entries are in ascending timestamp order with equal
\* timestamps in append order, and the entries an append evicts are the first
\* ones of that order: the evicted entries followed by the retained ones are
\* the previous entries and the new one, in that order.
C20_StableOrder ==
    /\ EWOrdered(ew.w.data)
    /\ ew.last.op = "append" =>
          /\ EWOrdered(ew.last.removed \o ew.w.data)
          /\ Range(ew.last.removed \o ew.w.data)
                 = Range(ew.last.pre.data) \cup {ew.last.entry}
          /\ Len(ew.last.removed) + Len(ew.w.data) = Len(ew.last.pre.data) + 1

\* C20 witness: the third append evicted the two entries with equal
\* timestamps, the one appended first being evicted first
C20_Witness ==
    /\ ew.last.op = "append"
    /\ Len(ew.last.removed) = 2
    /\ get_ts(ew.last.removed[1]) = get_ts(ew.last.removed[2])
    /\ ew.last.removed[1][1].id = 1 /\ ew.last.removed[2][1].id = 2

\* an entry that arrived out of order sits before a later one and after an
\* earlier one with its own timestamp
C20_WitnessMiddle ==
    /\ ew.last.op = "append" /\ ew.last.entry[1].id = 3
    /\ Len(ew.w.data) = 3
    /\ ew.w.data[2] = ew.last.entry
    /\ get_ts(ew.w.data[1]) = get_ts(ew.w.data[2])
    /\ get_ts(ew.w.data[2]) < get_ts(ew.w.data[3])

\* x lists, oldest first and each once, the entries that were in the window
\* before the step or were appended by it and are not retained after it
EWEvictedBy(x) ==
    /\ Range(x) = (Range(ew.w.data) \cup {ew'.last.entry}) \ Range(ew'.w.data)
    /\ Len(x) = Cardinality(Range(x))
    /\ EWOrdered(x)

\* C21: every entry evicted by append's timeframe enforcement is passed to
\* onRemoved exactly once, oldest first, and an entry that is still retained
\* or that clear() discarded is never passed to onRemoved.
C21_OnRemoved ==
    [][/\ ew'.last.op = "append" =>
             /\ Len(ew'.removed) >= Len(ew.removed)
             /\ SubSeq(ew'.removed, 1, Len(ew.removed)) = ew.removed
             /\ EWEvictedBy(SubSeq(ew'.removed, Len(ew.removed) + 1, Len(ew'.removed)))
       /\ ew'.last.op = "clear" => ew'.removed = ew.removed
       /\ Range(ew'.removed) \cap Range(ew'.w.data) = {}]_vars

\* C21 witness: an append evicted two entries, clear() then discarded the
\* entry that was left, and onRemoved has received just the two
C21_Witness ==
    /\ ew.last.op = "clear"
    /\ ew.n = 3
    /\ Len(ew.removed) = 2
    /\ ew.removed[1][1].id # ew.removed[2][1].id
    /\ get_ts(ew.removed[1]) <= get_ts(ew.removed[2])

\* the last call appended a zero-count placeholder and evicted nothing
EWPlaceholderAdded ==
    /\ ew.last.op = "append"
    /\ ew.last.entry[1].placeholder
    /\ ew.last.removed = <<>>

\* C22: mean(), min() and max() of an EventWindow are computed over the
\* counts of the entries that are not placeholders: adding a zero-count
\* placeholder never changes the value of min() or max(), and mean() is None
\* when the window holds no entry that is not a placeholder.
C22_PlaceholdersExcluded ==
    /\ EWPlaceholderAdded =>
          /\ EventWindow_min(ew.w) = EventWindow_min(ew.last.pre)
          /\ EventWindow_max(ew.w) = EventWindow_max(ew.last.pre)
    /\ (\A i \in 1..Len(ew.w.data) : ew.w.data[i][1].placeholder)
          => IsNone(EventWindow_mean(ew.w))

\* what the code gives: mean() skips placeholders, min() and max() count them
\* as 0, so a placeholder leaves max() of a non-empty window alone and makes
\* min() 0
C22_Observed ==
    /\ EWPlaceholderAdded =>
          /\ EventWindow_min(ew.w) = Int2Val(0)
          /\ Len(ew.last.pre.data) > 0 =>
                 EventWindow_max(ew.w) = EventWindow_max(ew.last.pre)
          /\ EventWindow_mean(ew.w) = EventWindow_mean(ew.last.pre)
    /\ (\A i \in 1..Len(ew.w.data) : ew.w.data[i][1].placeholder)
          => IsNone(EventWindow_mean(ew.w))

\* a placeholder added to a window whose only entry counts 2 lowered min()
\* from 2 to 0
C22_MinLowered ==
    /\ EWPlaceholderAdded
    /\ Len(ew.last.pre.data) = 1
    /\ EventWindow_min(ew.last.pre) = Int2Val(2)
    /\ EventWindow_min(ew.w) = Int2Val(0)

\* the last call appended an entry at least timeframe older than the newest
\* entry the window held
EWLateAppend ==
    /\ ew.last.op = "append"
    /\ Len(ew.last.pre.data) > 0
    /\ get_ts(ew.last.pre.data[Len(ew.last.pre.data)]) - get_ts(ew.last.entry)
           >= ew.w.timeframe

\* C39: an entry appended to an EventWindow (timeframe > 0) with a timestamp
\* at least timeframe older than the window's newest entry is evicted within
\* that same append: it is not retained, count() is the same after the append
\* as before it, no other entry is evicted, and onRemoved is called with that
\* entry.
C39_LateEvicted ==
    EWLateAppend =>
        /\ ew.last.entry \notin Range(ew.w.data)
        /\ EventWindow_count(ew.w) = EventWindow_count(ew.last.pre)
        /\ ew.w.data = ew.last.pre.data
        /\ ew.last.removed = <<ew.last.entry>>

\* C39 witness: a counted late entry was appended to a window holding two
\* entries, and both are still there
C39_Witness ==
    /\ EWLateAppend
    /\ ew.last.entry[2] = 2
    /\ Len(ew.last.pre.data) = 2
    /\ Len(ew.w.data) = 2
    /\ EventWindow_count(ew.w) > 0

=============================================================================
